---- MODULE Spec2Model ----
(***************************************************************************)
(* Model of the seed-recovery script (src/recover_seed.py) and of the      *)
(* audit WSGI application (src/audit_app/app.py, src/audit_app/analysis.py).*)
(*                                                                         *)
(* Python integers are unbounded, so no width is applied except where the  *)
(* code masks (& 0xff).  Bit operations are computed bit by bit.           *)
(***************************************************************************)
EXTENDS Integers, Sequences, FiniteSets, TLC

VARIABLES
  fop, fa, fb, fout,               \* field arithmetic: call, operands, results
  sS, sB, sx1, sx2, sh1, sh2, sout, \* share reconstruction: inputs, result
  cop, cwl, centropy, chash0, cmnemonic, cenc, cdec, \* mnemonic codec
  mpc, min, mloc, mout, merr,      \* main: position, inputs, locals, stdout, exception
  aenv, aresp, alog,               \* WSGI application: environ, response, calls made
  nsource, nreport                 \* contract analysis: source text, report

vars_field  == <<fop, fa, fb, fout>>
vars_shares == <<sS, sB, sx1, sx2, sh1, sh2, sout>>
vars_codec  == <<cop, cwl, centropy, chash0, cmnemonic, cenc, cdec>>

vars_main   == <<mpc, min, mloc, mout, merr>>
vars_app    == <<aenv, aresp, alog>>
vars_analysis == <<nsource, nreport>>

\* What the actions of one part leave alone.
not_field  == <<vars_shares, vars_codec, vars_main, vars_app, vars_analysis>>
not_shares == <<vars_field, vars_codec, vars_main, vars_app, vars_analysis>>
not_codec  == <<vars_field, vars_shares, vars_main, vars_app, vars_analysis>>
not_main   == <<vars_field, vars_shares, vars_codec, vars_app, vars_analysis>>
not_app    == <<vars_field, vars_shares, vars_codec, vars_main, vars_analysis>>
not_analysis == <<vars_field, vars_shares, vars_codec, vars_main, vars_app>>

vars == <<vars_field, vars_shares, vars_codec, vars_main, vars_app, vars_analysis>>

\* The values of one byte.
Byte == 0..255

\* Marks a result that has not been computed yet.
NoResult == [kind |-> "none"]

(***************************************************************************)
(* Bit operations on non-negative integers.                                *)
(***************************************************************************)
RECURSIVE BitXor(_, _)
\* Python's a ^ b.
BitXor(a, b) ==
  IF a = 0 THEN b
  ELSE IF b = 0 THEN a
  ELSE ((a + b) % 2) + 2 * BitXor(a \div 2, b \div 2)

RECURSIVE BitAnd(_, _)
\* Python's a & b.
BitAnd(a, b) ==
  IF a = 0 \/ b = 0 THEN 0
  ELSE ((a % 2) * (b % 2)) + 2 * BitAnd(a \div 2, b \div 2)

(***************************************************************************)
(* GF(256) arithmetic.                                                     *)
(***************************************************************************)
\* The reduction polynomial x^8 + x^4 + x^3 + x + 1 (0x11b).
ReductionPoly == 283

\* The number of iterations of the multiplication loop.
MulRounds == 8

gf256_add(a, b) == BitXor(a, b)

gf256_sub(a, b) == BitXor(a, b)

\* An iteration that takes the carry from bit 6 instead of bit 7 (a plausible
\* slip).
gf256_mul_step_carry6(st) ==
  LET p == st[1]
      a == st[2]
      b == st[3]
      p1 == IF BitAnd(b, 1) # 0 THEN BitXor(p, a) ELSE p
      carry == BitAnd(a, 64)
      a1 == a * 2
      a2 == IF carry # 0 THEN BitXor(a1, ReductionPoly) ELSE a1
  IN <<p1, a2, b \div 2>>

\* One iteration of the loop of _gf256_mul on the locals <<p, a, b>>.
gf256_mul_step(st) ==
  LET p == st[1]
      a == st[2]
      b == st[3]
      p1 == IF BitAnd(b, 1) # 0 THEN BitXor(p, a) ELSE p
      carry == BitAnd(a, 128)
      a1 == a * 2
      a2 == IF carry # 0 THEN BitXor(a1, ReductionPoly) ELSE a1
  IN <<p1, a2, b \div 2>>

RECURSIVE gf256_mul_loop(_, _)
\* The locals after n more iterations.
gf256_mul_loop(st, n) ==
  IF n = 0 THEN st ELSE gf256_mul_loop(gf256_mul_step(st), n - 1)

\* A multiplication whose loop stops one iteration early (a plausible slip).
gf256_mul_short(a, b) ==
  BitAnd(gf256_mul_loop(<<0, BitAnd(a, 255), BitAnd(b, 255)>>, MulRounds - 1)[1], 255)

gf256_mul(a, b) ==
  BitAnd(gf256_mul_loop(<<0, BitAnd(a, 255), BitAnd(b, 255)>>, MulRounds)[1], 255)

\* The candidates b of "for b in range(1, 256)", from b = lo on, that the test
\* "_gf256_mul(a, b) == 1" accepts.
gf256_inverse_hits(a, lo) == {b \in lo..255 : gf256_mul(a, b) = 1}

\* The first accepted candidate, or the trailing "return 0" when there is none.
gf256_inverse_search(a, lo) ==
  LET hits == gf256_inverse_hits(a, lo)
  IN IF hits = {} THEN 0 ELSE CHOOSE b \in hits : \A c \in hits : b <= c

\* An inverse whose search starts one candidate late (a plausible slip).
gf256_inverse_late(a) ==
  IF a = 0 THEN 0 ELSE gf256_inverse_search(a, 2)

\* An inverse that answers the zero element with the multiplicative identity.
gf256_inverse_zero_one(a) ==
  IF a = 0 THEN 1 ELSE gf256_inverse_search(a, 1)

gf256_inverse(a) ==
  IF a = 0 THEN 0 ELSE gf256_inverse_search(a, 1)

\* The multiplication table of _gf256_mul, computed once from gf256_mul.
MulTab == [a \in Byte |-> [b \in Byte |-> gf256_mul(a, b)]]

\* The addition table of _gf256_add, computed once from gf256_add.
AddTab == [a \in Byte |-> [b \in Byte |-> gf256_add(a, b)]]

(***************************************************************************)
(* Field arithmetic applied to every pair of bytes.                        *)
(***************************************************************************)
FieldIdle == fop = "idle" /\ fa = 0 /\ fb = 0 /\ fout = NoResult

\* Every pair of operands of the binary functions, every operand of the inverse.
FieldInit ==
  /\ \/ fop = "binary" /\ fa \in Byte /\ fb \in Byte
     \/ fop = "inverse" /\ fa \in Byte /\ fb = 0
  /\ fout = NoResult

\* Calls _gf256_add, _gf256_sub and _gf256_mul on the operands; none can raise.
FieldBinary ==
  /\ fop = "binary" /\ fout = NoResult
  /\ fout' = [kind |-> "value",
              add |-> gf256_add(fa, fb),
              sub |-> gf256_sub(fa, fb),
              mul |-> gf256_mul(fa, fb),
              raised |-> "none"]
  /\ UNCHANGED <<fop, fa, fb>>
  /\ UNCHANGED not_field

\* Calls _gf256_inverse on the operand; it returns on every path and never raises.
FieldInverse ==
  /\ fop = "inverse" /\ fout = NoResult
  /\ fout' = [kind |-> "value", inv |-> gf256_inverse(fa), raised |-> "none"]
  /\ UNCHANGED <<fop, fa, fb>>
  /\ UNCHANGED not_field

BinaryDone == fop = "binary" /\ fout.kind = "value"

InverseDone == fop = "inverse" /\ fout.kind = "value"

(***************************************************************************)
(* Share reconstruction: lines 82-94 of main, on two byte sequences.       *)
(***************************************************************************)
\* The length of an entropy, in bytes.
EntropyLen == 16

x1 == 1

x2 == 2

\* inv_3 = _gf256_inverse(3), computed once before the loop.
inv_3 == gf256_inverse(3)

\* A loop body that adds the slope to y2 instead of y1 (a plausible slip).
ReconstructByteY2(y1, y2) ==
  LET b_i == gf256_mul(gf256_add(y1, y2), inv_3)
  IN gf256_add(y2, b_i)

\* The body of the loop: the secret byte a_i of one byte position.
ReconstructByte(y1, y2) ==
  LET b_i == gf256_mul(gf256_add(y1, y2), inv_3)
      a_i == gf256_add(y1, b_i)
  IN a_i

RECURSIVE ReconstructLoop(_, _, _, _)
\* "for i in range(len(share1_bytes))" from position i on (1-based here);
\* share2_bytes[i] raises IndexError past the end of share2_bytes.
ReconstructLoop(share1_bytes, share2_bytes, i, secret_bytes) ==
  IF i > Len(share1_bytes) THEN [kind |-> "value", secret |-> secret_bytes]
  ELSE IF i > Len(share2_bytes) THEN [kind |-> "raised", error |-> "IndexError"]
  ELSE ReconstructLoop(share1_bytes, share2_bytes, i + 1,
         Append(secret_bytes, ReconstructByte(share1_bytes[i], share2_bytes[i])))

Reconstruct(share1_bytes, share2_bytes) ==
  ReconstructLoop(share1_bytes, share2_bytes, 1, <<>>)

\* The share of secret S and blinding vector B at x: S[i] + B[i] * x in GF(256).
MakeShare(S, B, x) ==
  [i \in 1..Len(S) |-> gf256_add(S[i], gf256_mul(B[i], x))]

\* Largest share index the environment hands out.
MaxIndex == 3

\* Seeds of the secrets and blinding vectors tried with shares of any index.
MaxSeed == 2

\* Secrets: byte position i holds 16 * u + (i - 1), so that u in 0..15 and the
\* 16 positions together run through every byte value.
SecretVec(u) == [i \in 1..EntropyLen |-> (EntropyLen * u + (i - 1)) % 256]

\* Blinding vectors: byte position i holds b + 37 * (i - 1) mod 256.
BlindVec(b) == [i \in 1..EntropyLen |-> (b + 37 * (i - 1)) % 256]

SharesIdle ==
  /\ sS = <<>> /\ sB = <<>> /\ sx1 = 0 /\ sx2 = 0
  /\ sh1 = <<>> /\ sh2 = <<>> /\ sout = NoResult

\* Two well-formed shares of every secret byte with every blinding byte.
SharesInitGood ==
  \E u \in 0..((256 \div EntropyLen) - 1), b \in Byte :
    /\ sS = SecretVec(u) /\ sB = BlindVec(b)
    /\ sx1 = x1 /\ sx2 = x2
    /\ sh1 = MakeShare(sS, sB, sx1) /\ sh2 = MakeShare(sS, sB, sx2)
    /\ sout = NoResult

\* Two shares as an operator may supply them: made at any indices.  Both are
\* results of mnemonic_to_bytes, and so of EntropyLen bytes each.
SharesInitAny ==
  \E u \in 0..MaxSeed, b \in 0..MaxSeed, i1 \in 1..MaxIndex, i2 \in 1..MaxIndex :
    /\ sS = SecretVec(u) /\ sB = BlindVec(200 + b)
    /\ sx1 = i1 /\ sx2 = i2
    /\ sh1 = MakeShare(sS, sB, sx1)
    /\ sh2 = MakeShare(sS, sB, sx2)
    /\ sout = NoResult

SharesInit == SharesInitGood \/ SharesInitAny

\* Runs the reconstruction loop on the two byte sequences.
SharesReconstruct ==
  /\ sout = NoResult
  /\ sout' = Reconstruct(sh1, sh2)
  /\ UNCHANGED <<sS, sB, sx1, sx2, sh1, sh2>>
  /\ UNCHANGED not_shares

SharesDone == sout.kind # "none"

(***************************************************************************)
(* Mnemonic codec.  A bit string is a sequence of 0s and 1s.  A word is an *)
(* atomic token (a natural number); a mnemonic is a string, here a         *)
(* sequence of words and of whitespace characters (Space).                 *)
(***************************************************************************)
\* The number of words of the word list (english.txt).
WordlistSize == 2048

\* The words of a mnemonic.
MnemonicWords == 12

\* The bits of one word index.
WordBits == 11

\* The bits of a mnemonic: 12 * 11.
TotalBits == 132

\* The bits of an entropy: 16 * 8.
EntropyBits == 128

\* The bits of the checksum.
ChecksumBits == 4

\* A whitespace character of a mnemonic string.
Space == 0 - 1

\* A token that is a word of no word list.
Unlisted == 5000

RECURSIVE Bin(_)
\* bin(n)[2:]: the binary digits of n, most significant first ("0" for 0).
Bin(n) == IF n < 2 THEN <<n>> ELSE Append(Bin(n \div 2), n % 2)

\* s.zfill(w): s padded on the left with zeros up to width w.
Zfill(s, w) == IF Len(s) >= w THEN s ELSE [i \in 1..(w - Len(s)) |-> 0] \o s

RECURSIVE IntOfBits(_)
\* int(bits, 2) of a non-empty bit string.
IntOfBits(bits) ==
  IF Len(bits) = 0 THEN 0
  ELSE 2 * IntOfBits(SubSeq(bits, 1, Len(bits) - 1)) + bits[Len(bits)]

RECURSIVE JoinBits(_)
\* ''.join(parts) of a sequence of bit strings.
JoinBits(parts) ==
  IF Len(parts) = 0 THEN <<>> ELSE Head(parts) \o JoinBits(Tail(parts))

\* s[i:j] of Python, on a sequence (0-based, j exclusive, cut at the end).
Slice(s, i, j) == SubSeq(s, i + 1, IF j > Len(s) THEN Len(s) ELSE j)

\* The word lists tried: list wl holds at index idx the word below, a
\* permutation of the tokens 0..2047 since the factor is odd.
WordAt(wl, idx) == ((2 * wl + 1) * idx + 7 * wl) % WordlistSize

\* word_list.index(word): the first index holding the word, or ValueError.
WordIndex(wl, word) ==
  LET hits == {i \in 0..(WordlistSize - 1) : WordAt(wl, i) = word}
  IN IF hits = {} THEN [kind |-> "raised", error |-> "ValueError", msg |-> "not in list"]
     ELSE [kind |-> "value", idx |-> CHOOSE i \in hits : \A j \in hits : i <= j]

\* mnemonic.split(): the words between runs of whitespace.
Split(mnemonic) == SelectSeq(mnemonic, LAMBDA t : t # Space)

\* ' '.join(words).
Join(words) ==
  [i \in 1..(IF Len(words) = 0 THEN 0 ELSE 2 * Len(words) - 1) |->
     IF i % 2 = 1 THEN words[(i + 1) \div 2] ELSE Space]

\* A decode that keeps the last 128 bits instead of the first (a plausible slip).
mnemonic_to_bytes_tail(mnemonic, wl) ==
  LET words == Split(mnemonic)
      looked == [i \in 1..Len(words) |-> WordIndex(wl, words[i])]
      bit_string == JoinBits([i \in 1..Len(words) |-> Zfill(Bin(looked[i].idx), WordBits)])
      entropy_bits == Slice(bit_string, ChecksumBits, TotalBits)
  IN IF Len(words) # MnemonicWords
       THEN [kind |-> "raised", error |-> "ValueError", msg |-> "Mnemonic must have 12 words"]
     ELSE IF \E i \in 1..Len(words) : looked[i].kind = "raised"
       THEN [kind |-> "raised", error |-> "ValueError", msg |-> "not in list"]
     ELSE [kind |-> "value",
           bytes |-> [k \in 1..EntropyLen |->
                        IntOfBits(Slice(entropy_bits, 8 * (k - 1), 8 * k))]]

\* A decode that looks the words up before it counts them (a plausible slip).
mnemonic_to_bytes_lookup_first(mnemonic, wl) ==
  LET words == Split(mnemonic)
      looked == [i \in 1..Len(words) |-> WordIndex(wl, words[i])]
      bit_string == JoinBits([i \in 1..Len(words) |-> Zfill(Bin(looked[i].idx), WordBits)])
      entropy_bits == Slice(bit_string, 0, EntropyBits)
  IN IF \E i \in 1..Len(words) : looked[i].kind = "raised"
       THEN [kind |-> "raised", error |-> "ValueError", msg |-> "not in list"]
     ELSE IF Len(words) # MnemonicWords
       THEN [kind |-> "raised", error |-> "ValueError", msg |-> "Mnemonic must have 12 words"]
     ELSE [kind |-> "value",
           bytes |-> [k \in 1..EntropyLen |->
                        IntOfBits(Slice(entropy_bits, 8 * (k - 1), 8 * k))]]

\* A decode that pads or cuts the bits of a mnemonic of another length
\* instead of refusing it (a plausible slip).
mnemonic_to_bytes_lenient(mnemonic, wl) ==
  LET words == Split(mnemonic)
      looked == [i \in 1..Len(words) |-> WordIndex(wl, words[i])]
      bit_string == JoinBits([i \in 1..Len(words) |-> Zfill(Bin(looked[i].idx), WordBits)])
      entropy_bits == Slice(Zfill(bit_string, TotalBits), 0, EntropyBits)
  IN IF \E i \in 1..Len(words) : looked[i].kind = "raised"
       THEN [kind |-> "raised", error |-> "ValueError", msg |-> "not in list"]
     ELSE [kind |-> "value",
           bytes |-> [k \in 1..EntropyLen |->
                        IntOfBits(Slice(entropy_bits, 8 * (k - 1), 8 * k))]]

\* A decode that verifies the four checksum bits against the digest of the
\* entropy, as a standard BIP39 decoder does.
mnemonic_to_bytes_verifying(mnemonic, wl) ==
  LET words == Split(mnemonic)
      looked == [i \in 1..Len(words) |-> WordIndex(wl, words[i])]
      bit_string == JoinBits([i \in 1..Len(words) |-> Zfill(Bin(looked[i].idx), WordBits)])
      entropy_bits == Slice(bit_string, 0, EntropyBits)
  IN IF Len(words) # MnemonicWords
       THEN [kind |-> "raised", error |-> "ValueError", msg |-> "Mnemonic must have 12 words"]
     ELSE IF \E i \in 1..Len(words) : looked[i].kind = "raised"
       THEN [kind |-> "raised", error |-> "ValueError", msg |-> "not in list"]
     ELSE IF IntOfBits(Slice(bit_string, EntropyBits, TotalBits)) # chash0 \div 16
       THEN [kind |-> "raised", error |-> "ChecksumMismatch", msg |-> "checksum"]
     ELSE [kind |-> "value",
           bytes |-> [k \in 1..EntropyLen |->
                        IntOfBits(Slice(entropy_bits, 8 * (k - 1), 8 * k))]]

\* mnemonic_to_bytes(mnemonic, word_list) with word list wl.
mnemonic_to_bytes(mnemonic, wl) ==
  LET words == Split(mnemonic)
      looked == [i \in 1..Len(words) |-> WordIndex(wl, words[i])]
      bit_string == JoinBits([i \in 1..Len(words) |-> Zfill(Bin(looked[i].idx), WordBits)])
      entropy_bits == Slice(bit_string, 0, EntropyBits)
  IN IF Len(words) # MnemonicWords
       THEN [kind |-> "raised", error |-> "ValueError", msg |-> "Mnemonic must have 12 words"]
     ELSE IF \E i \in 1..Len(words) : looked[i].kind = "raised"
       THEN [kind |-> "raised", error |-> "ValueError", msg |-> "not in list"]
     ELSE IF Len(bit_string) # TotalBits
       THEN [kind |-> "raised", error |-> "ValueError", msg |-> "Bit string length error"]
     ELSE [kind |-> "value",
           bytes |-> [k \in 1..EntropyLen |->
                        IntOfBits(Slice(entropy_bits, 8 * (k - 1), 8 * k))]]

\* bytes_to_mnemonic(entropy_bytes, word_list) with word list wl; hash0 is the
\* first byte of the SHA-256 digest of the entropy.
bytes_to_mnemonic(entropy_bytes, wl, hash0) ==
  LET entropy_bits == JoinBits([i \in 1..Len(entropy_bytes) |-> Zfill(Bin(entropy_bytes[i]), 8)])
      hash_bits == Zfill(Bin(hash0), 8)
      checksum == Slice(hash_bits, 0, ChecksumBits)
      total_bits == entropy_bits \o checksum
      idx == [k \in 1..MnemonicWords |->
                IntOfBits(Slice(total_bits, WordBits * (k - 1), WordBits * k))]
  IN IF Len(entropy_bytes) # EntropyLen
       THEN [kind |-> "raised", error |-> "ValueError", msg |-> "Entropy must be 16 bytes"]
     ELSE IF Len(total_bits) # TotalBits
       THEN [kind |-> "raised", error |-> "ValueError", msg |-> "Total bits should be 132"]
     ELSE IF \E k \in 1..MnemonicWords : idx[k] >= WordlistSize
       THEN [kind |-> "raised", error |-> "IndexError", msg |-> "list index out of range"]
     ELSE [kind |-> "value",
           mnemonic |-> Join([k \in 1..MnemonicWords |-> WordAt(wl, idx[k])])]


\* Largest word-list number tried.
MaxWordlist == 2

\* Largest seed and step numbers of the entropies tried.
MaxESeed == 5

MaxEStep == 2

\* By how many bytes a malformed entropy misses 16.
MaxEDelta == 1

\* Largest seed number of the mnemonics tried directly, and by how many words
\* such a mnemonic may miss 12.
MaxMSeed == 2

MaxWordDelta == 1

\* Entropies: n bytes, byte i is s + t * (i - 1) mod 256, for seeds s spread
\* over 0..255 (0 and 255 included) and steps t that are multiples of 37.
EntropyVec(ks, kt, n) ==
  [i \in 1..n |-> (((ks * 51) % 256) + (kt * 37) * (i - 1)) % 256]

\* First bytes of a digest: every value of the top four bits.
HashBytes == {16 * c + ((3 * c) % 16) : c \in 0..15}

\* n words of word list wl, the word at position u (if any) replaced by one
\* that is not listed.
CraftedWords(wl, d, n, u) ==
  [k \in 1..n |-> IF k = u THEN Unlisted + k
                  ELSE WordAt(wl, (d * 411 + k * 977) % WordlistSize)]

\* 12 indices into a word list, the last one ending in the four bits c.
TrailedIndices(d, c) ==
  [k \in 1..MnemonicWords |->
     IF k = MnemonicWords
       THEN 16 * ((d * 411 + k * 977) % 128) + c
       ELSE (d * 411 + k * 977) % WordlistSize]

\* The words of word list wl at these indices.
TrailedWords(wl, d, c) ==
  [k \in 1..MnemonicWords |-> WordAt(wl, TrailedIndices(d, c)[k])]

\* The words written out: joined by single spaces, or with whitespace before,
\* after and doubled between them.
Written(words, wide) ==
  IF wide = 0 THEN Join(words)
  ELSE <<Space>> \o JoinBits([k \in 1..Len(words) |-> <<words[k], Space, Space>>])

CodecIdle ==
  /\ cop = "idle" /\ cwl = 0 /\ centropy = <<>> /\ chash0 = 0
  /\ cmnemonic = <<>> /\ cenc = NoResult /\ cdec = NoResult

\* An entropy to encode and decode again.
CodecInitRoundTrip ==
  \E ks \in 0..MaxESeed, kt \in 0..MaxEStep, wl \in 0..MaxWordlist,
     h \in HashBytes, n \in (EntropyLen - MaxEDelta)..(EntropyLen + MaxEDelta) :
    /\ n # EntropyLen => (kt = 0 /\ h = 0)
    /\ cop = "roundtrip" /\ cwl = wl /\ centropy = EntropyVec(ks, kt, n)
    /\ chash0 = h /\ cmnemonic = <<>> /\ cenc = NoResult /\ cdec = NoResult

\* A mnemonic to decode, as an operator may type it.
CodecInitDecode ==
  \E d \in 0..MaxMSeed, wl \in 0..MaxWordlist, wide \in 0..1,
     n \in (MnemonicWords - MaxWordDelta)..(MnemonicWords + MaxWordDelta) :
    \E u \in 0..n :
      /\ cop = "decode" /\ cwl = wl /\ centropy = <<>> /\ chash0 = 0
      /\ cmnemonic = Written(CraftedWords(wl, d, n, u), wide)
      /\ cenc = NoResult /\ cdec = NoResult

\* A mnemonic of 12 listed words with any four trailing bits, to decode and
\* encode again; chash0 is the first byte of the digest of what it decodes to.
CodecInitRecode ==
  \E d \in 0..MaxMSeed, c \in 0..15, h \in HashBytes :
    /\ cop = "recode" /\ cwl = d % (MaxWordlist + 1) /\ centropy = <<>> /\ chash0 = h
    /\ cmnemonic = Join(TrailedWords(cwl, d, c))
    /\ cenc = NoResult /\ cdec = NoResult

CodecInit == CodecInitRoundTrip \/ CodecInitDecode \/ CodecInitRecode

\* Calls bytes_to_mnemonic on the entropy; its mnemonic is decoded next.
CodecEncode ==
  /\ cop = "roundtrip" /\ cenc = NoResult
  /\ cenc' = bytes_to_mnemonic(centropy, cwl, chash0)
  /\ cmnemonic' = IF cenc'.kind = "value" THEN cenc'.mnemonic ELSE cmnemonic
  /\ UNCHANGED <<cop, cwl, centropy, chash0, cdec>>
  /\ UNCHANGED not_codec

\* Calls mnemonic_to_bytes on the mnemonic.
CodecDecode ==
  /\ cdec = NoResult
  /\ \/ cop \in {"decode", "recode"}
     \/ cop = "roundtrip" /\ cenc.kind = "value"
  /\ cdec' = mnemonic_to_bytes(cmnemonic, cwl)
  /\ UNCHANGED <<cop, cwl, centropy, chash0, cmnemonic, cenc>>
  /\ UNCHANGED not_codec

\* Calls bytes_to_mnemonic on the bytes that mnemonic_to_bytes returned.
CodecRecode ==
  /\ cop = "recode" /\ cdec.kind = "value" /\ cenc = NoResult
  /\ cenc' = bytes_to_mnemonic(cdec.bytes, cwl, chash0)
  /\ UNCHANGED <<cop, cwl, centropy, chash0, cmnemonic, cdec>>
  /\ UNCHANGED not_codec

DecodeDone == cdec.kind # "none"

(***************************************************************************)
(* main: decode the two shares, reconstruct, encode, derive the seed and   *)
(* print.  An exception raised by a call is not caught anywhere: it ends   *)
(* the run at that line.                                                   *)
(***************************************************************************)
\* The iteration count of PBKDF2.
KdfIterations == 2048

\* mnemonic_to_seed(mnemonic, passphrase): the digest is that of the external
\* primitive, kept as the arguments it is computed from.
mnemonic_to_seed(mnemonic, passphrase) ==
  [kind |-> "hex", hash |-> "sha512", password |-> mnemonic,
   salt |-> <<"mnemonic", passphrase>>, iterations |-> KdfIterations]

NoSeed == [kind |-> "none"]

NoError == [kind |-> "none"]

\* What an operator may get wrong in a share mnemonic.
Defects == {"none", "short", "long", "unknown"}

\* The mnemonic with the defect: its last word dropped, a word added, or its
\* third word replaced by one that is not listed.
Defective(mnemonic, defect) ==
  LET words == Split(mnemonic)
  IN CASE defect = "none" -> mnemonic
       [] defect = "short" -> Join(SubSeq(words, 1, Len(words) - 1))
       [] defect = "long" -> Join(Append(words, words[1]))
       [] defect = "unknown" -> Join([words EXCEPT ![3] = Unlisted])

\* hashlib.sha256(entropy_bytes).digest()[0] for the 16-byte strings
\* SecretVec(0), SecretVec(1), ... in this order, as hashlib computes them.
DigestHeads == <<190, 252, 54, 129, 186, 55, 46, 251,
                 118, 248, 80, 159, 212, 124, 200, 150>>

\* The first byte of the SHA-256 digest of one of these strings.
sha256_head(entropy_bytes) ==
  DigestHeads[(CHOOSE u \in 0..(Len(DigestHeads) - 1) : entropy_bytes = SecretVec(u)) + 1]

\* load_wordlist(filename): the lines of the file, or the exception of open.
\* The file holds word list wl or does not exist.
load_wordlist(file) ==
  IF file.exists
    THEN [kind |-> "value", wl |-> file.wl]
    ELSE [kind |-> "raised", error |-> "FileNotFoundError",
          msg |-> "No such file or directory: 'english.txt'"]

MainIdle ==
  /\ mpc = "idle" /\ min = [kind |-> "none"] /\ mout = <<>> /\ merr = NoError
  /\ mloc = [kind |-> "none"]

\* The two share mnemonics are those of the shares at x = 1 and x = 2 of a
\* secret, each possibly with a defect; english.txt is one of the word lists
\* or is missing (the mnemonics are then written with word list 0).
MainInit ==
  \E u \in 0..MaxSeed, b \in 0..MaxSeed, wl \in 0..MaxWordlist, exists \in BOOLEAN,
     d1 \in Defects, d2 \in Defects :
    LET S == SecretVec(u)
        B == BlindVec(100 + b)
    IN /\ ~exists => wl = 0
       /\ mpc = "load"
       /\ min = [kind |-> "input", file |-> [exists |-> exists, wl |-> wl],
                 secret |-> S,
                 defect1 |-> d1, defect2 |-> d2,
                 share1_mnemonic |->
                   Defective(bytes_to_mnemonic(MakeShare(S, B, x1), wl, 0).mnemonic, d1),
                 share2_mnemonic |->
                   Defective(bytes_to_mnemonic(MakeShare(S, B, x2), wl, 0).mnemonic, d2)]
       /\ mloc = [word_list |-> "unbound",
                  share1_bytes |-> <<>>, share2_bytes |-> <<>>, secret_bytes |-> <<>>,
                  original_mnemonic |-> <<>>, seed |-> NoSeed]
       /\ mout = <<>>
       /\ merr = NoError

\* word_list = load_wordlist("english.txt")
MainLoad ==
  /\ mpc = "load"
  /\ LET r == load_wordlist(min.file)
     IN IF r.kind = "raised"
          THEN mpc' = "aborted" /\ merr' = r /\ UNCHANGED mloc
          ELSE /\ mpc' = "decode1"
               /\ mloc' = [mloc EXCEPT !.word_list = r.wl]
               /\ UNCHANGED merr
  /\ UNCHANGED <<min, mout>>
  /\ UNCHANGED not_main

\* share1_bytes = mnemonic_to_bytes(share1_mnemonic, word_list)
MainDecode1 ==
  /\ mpc = "decode1"
  /\ LET r == mnemonic_to_bytes(min.share1_mnemonic, mloc.word_list)
     IN IF r.kind = "raised"
          THEN mpc' = "aborted" /\ merr' = r /\ UNCHANGED mloc
          ELSE /\ mpc' = "decode2"
               /\ mloc' = [mloc EXCEPT !.share1_bytes = r.bytes]
               /\ UNCHANGED merr
  /\ UNCHANGED <<min, mout>>
  /\ UNCHANGED not_main

\* share2_bytes = mnemonic_to_bytes(share2_mnemonic, word_list)
MainDecode2 ==
  /\ mpc = "decode2"
  /\ LET r == mnemonic_to_bytes(min.share2_mnemonic, mloc.word_list)
     IN IF r.kind = "raised"
          THEN mpc' = "aborted" /\ merr' = r /\ UNCHANGED mloc
          ELSE /\ mpc' = "reconstruct"
               /\ mloc' = [mloc EXCEPT !.share2_bytes = r.bytes]
               /\ UNCHANGED merr
  /\ UNCHANGED <<min, mout>>
  /\ UNCHANGED not_main

\* The loop over the byte positions, and secret_bytes = bytes(secret_bytes).
MainReconstruct ==
  /\ mpc = "reconstruct"
  /\ LET r == Reconstruct(mloc.share1_bytes, mloc.share2_bytes)
     IN IF r.kind = "raised"
          THEN mpc' = "aborted" /\ merr' = r /\ UNCHANGED mloc
          ELSE /\ mpc' = "encode"
               /\ mloc' = [mloc EXCEPT !.secret_bytes = r.secret]
               /\ UNCHANGED merr
  /\ UNCHANGED <<min, mout>>
  /\ UNCHANGED not_main

\* original_mnemonic = bytes_to_mnemonic(secret_bytes, word_list)
MainEncode ==
  /\ mpc = "encode"
  /\ LET r == bytes_to_mnemonic(mloc.secret_bytes, mloc.word_list,
                             sha256_head(mloc.secret_bytes))
     IN IF r.kind = "raised"
          THEN mpc' = "aborted" /\ merr' = r /\ UNCHANGED mloc
          ELSE /\ mpc' = "seed"
               /\ mloc' = [mloc EXCEPT !.original_mnemonic = r.mnemonic]
               /\ UNCHANGED merr
  /\ UNCHANGED <<min, mout>>
  /\ UNCHANGED not_main

\* seed = mnemonic_to_seed(original_mnemonic)
MainSeed ==
  /\ mpc = "seed"
  /\ mpc' = "print"
  /\ mloc' = [mloc EXCEPT !.seed = mnemonic_to_seed(mloc.original_mnemonic, "")]
  /\ UNCHANGED <<min, mout, merr>>
  /\ UNCHANGED not_main

\* The two calls of print.
MainPrint ==
  /\ mpc = "print"
  /\ mpc' = "done"
  /\ mout' = <<[label |-> "Original Mnemonic:", value |-> mloc.original_mnemonic],
               [label |-> "Seed:", value |-> mloc.seed]>>
  /\ UNCHANGED <<min, mloc, merr>>
  /\ UNCHANGED not_main

(***************************************************************************)
(* Contract analysis (src/audit_app/analysis.py).                          *)
(*                                                                         *)
(* A text is made of lines taken from Lines and joined by newlines.  No    *)
(* hit of a pattern of analyze_contract spans two of these lines, so the   *)
(* counts depend only on how often each line occurs: a text is kept as the *)
(* number of occurrences of each line.                                     *)
(***************************************************************************)
\* None, as a JSON value: its type, and that "not value" holds.
PyNone == [type |-> "null", falsy |-> TRUE]

\* The lines that the texts analysed on their own are made of.
AddedLines ==
  {"target.delegatecall(data);",
   "a.delegatecall (x); b.DelegateCall(y);",
   "to.call(abi.encode(value));",
   "x.call(value); y.call(value);",
   "to.call{value: amount}(data);",
   "require(block.timestamp > deadline);",
   "uint height = block.number;",
   "// unknown caller",
   "selfdestruct(payable(owner));",
   "SUICIDE(owner);",
   "assembly { let x := 0 }",
   "require(tx.origin == owner);",
   "unchecked { i++; }",
   "function withdraw() external onlyOwner nonReentrant whenNotPaused {",
   "event Paid(address to);",
   "modifier guarded() {",
   "pragma solidity ^0.8.20;",
   "pragma solidity >=0.8.0;"}

\* The 27 lines of the source text of test_analyzer_reports_risk_vectors, each
\* with the number of times it occurs.
TestLines ==
  {<<"", 6>>,
   <<"    // SPDX-License-Identifier: MIT", 1>>,
   <<"    pragma solidity ^0.8.0;", 1>>,
   <<"    contract Dangerous {", 1>>,
   <<"        address public owner;", 1>>,
   <<"        constructor() {", 1>>,
   <<"            owner = msg.sender;", 1>>,
   <<"        }", 5>>,
   <<"        function rug(address target) external {", 1>>,
   <<"            target.delegatecall(\"\");", 1>>,
   <<"        function unsafe(address payable victim) external {", 1>>,
   <<"            victim.call{value: address(this).balance}(\"\");", 1>>,
   <<"        function nuke(address payable receiver) external {", 1>>,
   <<"            selfdestruct(receiver);", 1>>,
   <<"        function timestampGame() external view returns (uint256) {", 1>>,
   <<"            return block.timestamp;", 1>>,
   <<"    }", 1>>,
   <<"    ", 1>>}

\* The source text of test_analyze_endpoint_accepts_post_payload: one line.
TestAppLine ==
  "pragma solidity ^0.8.0;contract Test {  function boom(address target) external {    target.delegatecall(\"\");  }}"

\* Every line of the texts tried: the lines above and the one-line texts
\* posted as an address or as a source.
Lines ==
  AddedLines \cup {t[1] : t \in TestLines}
  \cup {TestAppLine, "0xabc123", "0xfeed000000000000000000000000000000000001",
        "contract X { }"}

\* re.findall(pattern, line, flags=re.IGNORECASE | re.MULTILINE): the number
\* of hits of each pattern of analyze_contract on each line that has some.
LineHits ==
  {<<"\\.delegatecall\\s*\\(",
     "target.delegatecall(data);", 1>>,
   <<"\\.delegatecall\\s*\\(",
     "a.delegatecall (x); b.DelegateCall(y);", 2>>,
   <<"\\.delegatecall\\s*\\(",
     "pragma solidity ^0.8.0;contract Test {  function boom(address target) external {    target.delegatecall(\"\");  }}", 1>>,
   <<"\\.delegatecall\\s*\\(",
     "            target.delegatecall(\"\");", 1>>,
   <<"\\.call\\s*\\(.*value",
     "to.call(abi.encode(value));", 1>>,
   <<"\\.call\\s*\\(.*value",
     "x.call(value); y.call(value);", 1>>,
   <<"call\\{value",
     "to.call{value: amount}(data);", 1>>,
   <<"call\\{value",
     "            victim.call{value: address(this).balance}(\"\");", 1>>,
   <<"block\\.timestamp|block\\.number|now",
     "require(block.timestamp > deadline);", 1>>,
   <<"block\\.timestamp|block\\.number|now",
     "uint height = block.number;", 1>>,
   <<"block\\.timestamp|block\\.number|now",
     "// unknown caller", 1>>,
   <<"block\\.timestamp|block\\.number|now",
     "            return block.timestamp;", 1>>,
   <<"selfdestruct|suicide",
     "selfdestruct(payable(owner));", 1>>,
   <<"selfdestruct|suicide",
     "SUICIDE(owner);", 1>>,
   <<"selfdestruct|suicide",
     "            selfdestruct(receiver);", 1>>,
   <<"assembly\\s*\\{",
     "assembly { let x := 0 }", 1>>,
   <<"tx\\.origin",
     "require(tx.origin == owner);", 1>>,
   <<"unchecked\\s*\\{",
     "unchecked { i++; }", 1>>,
   <<"onlyOwner|onlyRole|Ownable",
     "function withdraw() external onlyOwner nonReentrant whenNotPaused {", 1>>,
   <<"whenNotPaused|whenPaused",
     "function withdraw() external onlyOwner nonReentrant whenNotPaused {", 1>>,
   <<"nonReentrant",
     "function withdraw() external onlyOwner nonReentrant whenNotPaused {", 1>>,
   <<"function\\s+",
     "function withdraw() external onlyOwner nonReentrant whenNotPaused {", 1>>,
   <<"function\\s+",
     "pragma solidity ^0.8.0;contract Test {  function boom(address target) external {    target.delegatecall(\"\");  }}", 1>>,
   <<"function\\s+",
     "        function rug(address target) external {", 1>>,
   <<"function\\s+",
     "        function unsafe(address payable victim) external {", 1>>,
   <<"function\\s+",
     "        function nuke(address payable receiver) external {", 1>>,
   <<"function\\s+",
     "        function timestampGame() external view returns (uint256) {", 1>>,
   <<"event\\s+",
     "event Paid(address to);", 1>>,
   <<"modifier\\s+",
     "modifier guarded() {", 1>>}

\* sub in line, for the two substring tests of analyze_contract.
LineContains ==
  {<<"pragma solidity ^0.8",
     "pragma solidity ^0.8.20;">>,
   <<"pragma solidity ^0.8",
     "pragma solidity ^0.8.0;contract Test {  function boom(address target) external {    target.delegatecall(\"\");  }}">>,
   <<"pragma solidity ^0.8",
     "    pragma solidity ^0.8.0;">>,
   <<"pragma solidity >=0.8",
     "pragma solidity >=0.8.0;">>}

\* The text without any line: "".
EmptySource == [l \in Lines |-> 0]

\* The text of one line.
OneLine(line) == [EmptySource EXCEPT ![line] = 1]

\* The source text of test_analyzer_reports_risk_vectors.
TestSource ==
  [l \in Lines |->
     IF \E t \in TestLines : t[1] = l
       THEN (CHOOSE t \in TestLines : t[1] = l)[2] ELSE 0]

\* The number of lines of a text.
RECURSIVE LineCount(_, _)
LineCount(source, todo) ==
  IF todo = {} THEN 0
  ELSE LET l == CHOOSE x \in todo : TRUE
       IN source[l] + LineCount(source, todo \ {l})

\* len(re.findall(pattern, line, ...)) on one line.
FindallLine(pattern, line) ==
  LET hit == {t \in LineHits : t[1] = pattern /\ t[2] = line}
  IN IF hit = {} THEN 0 ELSE (CHOOSE t \in hit : TRUE)[3]

\* The patterns of analyze_contract, their hits on every line, and the lines
\* each of them hits.
Patterns == {t[1] : t \in LineHits}

HitTable == [pattern \in Patterns |-> [l \in Lines |-> FindallLine(pattern, l)]]

HitLines == [pattern \in Patterns |-> {l \in Lines : HitTable[pattern][l] > 0}]

\* The hits of a pattern on a text: those on each of its lines.
RECURSIVE CountIn(_, _, _)
CountIn(pattern, source, todo) ==
  IF todo = {} THEN 0
  ELSE LET l == CHOOSE x \in todo : TRUE
       IN source[l] * HitTable[pattern][l] + CountIn(pattern, source, todo \ {l})

\* _count(pattern, source)
count(pattern, source) == CountIn(pattern, source, HitLines[pattern])

\* sub in source
Contains(sub, source) == \E l \in Lines : source[l] > 0 /\ <<sub, l>> \in LineContains

\* The items of RISK_THRESHOLDS, in the order of the dict.
RISK_THRESHOLDS ==
  <<[label |-> "low", lower |-> 0, upper |-> 39],
    [label |-> "medium", lower |-> 40, upper |-> 69],
    [label |-> "high", lower |-> 70, upper |-> 1000]>>

\* _classify_risk with the upper end of each range left out (a plausible slip).
classify_risk_open(score) ==
  LET fits == {i \in DOMAIN RISK_THRESHOLDS :
                 RISK_THRESHOLDS[i].lower <= score /\ score < RISK_THRESHOLDS[i].upper}
  IN IF fits = {} THEN [label |-> "critical", score |-> score]
     ELSE [label |-> RISK_THRESHOLDS[CHOOSE i \in fits : \A j \in fits : i <= j].label,
           score |-> score]

\* _classify_risk: the first range of RISK_THRESHOLDS holding the score.
classify_risk(score) ==
  LET fits == {i \in DOMAIN RISK_THRESHOLDS :
                 RISK_THRESHOLDS[i].lower <= score /\ score <= RISK_THRESHOLDS[i].upper}
  IN IF fits = {} THEN [label |-> "critical", score |-> score]
     ELSE [label |-> RISK_THRESHOLDS[CHOOSE i \in fits : \A j \in fits : i <= j].label,
           score |-> score]

\* Python's min(a, b).
Min(a, b) == IF a <= b THEN a ELSE b

\* What a detector with hits adds to risk_score, losing its base beyond the
\* first hit (a plausible slip).
IncrementElse(hits, base, step, cap) ==
  IF hits = 1 THEN base ELSE Min(step * (hits - 1), cap)

\* What a detector with hits adds to risk_score:
\* base + min(step * (hits - 1), cap).
Increment(hits, base, step, cap) == base + Min(step * (hits - 1), cap)

\* The detectors of analyze_contract in the order of the code: the hits of
\* each, the finding it appends and the numbers of its risk_score line.
Detectors(source) ==
  LET callvalue_hits == count("\\.call\\s*\\(.*value", source)
      call_with_value_hits == count("call\\{value", source)
  IN <<[id |-> "delegatecall", title |-> "Delegatecall usage", severity |-> "high",
        hits |-> count("\\.delegatecall\\s*\\(", source),
        base |-> 45, step |-> 10, cap |-> 20],
       [id |-> "low_level_call_value", title |-> "Low-level call with value",
        severity |-> "medium", hits |-> callvalue_hits + call_with_value_hits,
        base |-> 18, step |-> 6, cap |-> 12],
       [id |-> "timestamp_dependence", title |-> "Timestamp or block number dependence",
        severity |-> "medium",
        hits |-> count("block\\.timestamp|block\\.number|now", source),
        base |-> 8, step |-> 4, cap |-> 8],
       [id |-> "selfdestruct", title |-> "Self-destruct capability", severity |-> "high",
        hits |-> count("selfdestruct|suicide", source),
        base |-> 35, step |-> 10, cap |-> 20],
       [id |-> "inline_assembly", title |-> "Inline assembly present",
        severity |-> "medium", hits |-> count("assembly\\s*\\{", source),
        base |-> 12, step |-> 4, cap |-> 8],
       [id |-> "tx_origin_auth", title |-> "tx.origin authentication", severity |-> "high",
        hits |-> count("tx\\.origin", source),
        base |-> 30, step |-> 10, cap |-> 20],
       [id |-> "unchecked_blocks", title |-> "Unchecked arithmetic blocks",
        severity |-> "low", hits |-> count("unchecked\\s*\\{", source),
        base |-> 6, step |-> 3, cap |-> 6]>>

\* risk_score after the first n detectors that have hits: 5 to begin with.
RECURSIVE RiskScore(_, _)
RiskScore(found, n) ==
  IF n = 0 THEN 5
  ELSE RiskScore(found, n - 1)
       + Increment(found[n].hits, found[n].base, found[n].step, found[n].cap)

\* metadata or {}
OrEmptyDict(metadata) ==
  IF metadata.falsy THEN [type |-> "object", falsy |-> TRUE] ELSE metadata

\* analyze_contract(address, source, metadata): the report.  The summary is
\* kept as what its sentences say, a recommendation as the finding whose
\* remediation it is.
analyze_contract(address, source, metadata) ==
  LET detectors == Detectors(source)
      Hit(d) == d.hits > 0
      found == SelectSeq(detectors, Hit)
      findings == [i \in 1..Len(found) |->
                     [id |-> found[i].id, title |-> found[i].title,
                      severity |-> found[i].severity, evidence |-> found[i].hits]]
      risk_score == RiskScore(found, Len(found))
      total_call_risk == detectors[2].hits
      owner_modifiers == count("onlyOwner|onlyRole|Ownable", source) > 0
      pausable == count("whenNotPaused|whenPaused", source) > 0
      non_reentrant == count("nonReentrant", source) > 0
  IN [address |-> address,
      summary |->
        [risk_factors |-> Len(findings),
         most_prominent |-> IF Len(findings) > 0 THEN findings[1].title ELSE "none",
         access_control_present |-> owner_modifiers,
         reentrancy_guard_missing |-> ~non_reentrant /\ total_call_risk > 0],
      risk_rating |-> classify_risk(Min(risk_score, 100)),
      findings |-> findings,
      metrics |->
        [function_count |-> count("function\\s+", source),
         event_count |-> count("event\\s+", source),
         modifier_count |-> count("modifier\\s+", source),
         delegatecall_count |-> detectors[1].hits,
         low_level_call_with_value |-> total_call_risk,
         selfdestruct_count |-> detectors[4].hits,
         assembly_blocks |-> detectors[5].hits,
         timestamp_dependency |-> detectors[3].hits,
         tx_origin_references |-> detectors[6].hits,
         unchecked_blocks |-> detectors[7].hits],
      heuristics |->
        [has_owner_modifiers |-> owner_modifiers,
         has_pause_mechanism |-> pausable,
         uses_non_reentrant_guard |-> non_reentrant,
         uses_solidity_08_checks |->
           Contains("pragma solidity ^0.8", source)
           \/ Contains("pragma solidity >=0.8", source)],
      recommendations |->
        IF Len(findings) > 0
          THEN [i \in 1..Len(findings) |-> [remediation_of |-> findings[i].id]]
          ELSE <<[remediation_of |-> "clean heuristics"]>>,
      metadata |-> OrEmptyDict(metadata)]

\* The longest source text analysed, in lines.
MaxLines == 4

AnalysisIdle == nsource = EmptySource /\ nreport = NoResult

\* The report of the empty source text, or the call of
\* test_analyzer_reports_risk_vectors.
AnalysisInit ==
  \/ /\ nsource = EmptySource
     /\ nreport = analyze_contract(OneLine("0xabc123"), EmptySource, PyNone)
  \/ /\ nsource = TestSource
     /\ nreport = analyze_contract(OneLine("0xfeed000000000000000000000000000000000001"),
                                   TestSource, [type |-> "object", falsy |-> FALSE])

\* analyze_contract on the source text with one more line.
AnalyzeLonger ==
  /\ LineCount(nsource, Lines) < MaxLines
  /\ \E l \in AddedLines :
       /\ nsource' = [nsource EXCEPT ![l] = @ + 1]
       /\ nreport' = analyze_contract(nreport.address, nsource', nreport.metadata)
  /\ UNCHANGED not_analysis

(***************************************************************************)
(* The WSGI application.  A method is a string, kept as its sequence of    *)
(* characters so that upper() is computed, a character outside ASCII       *)
(* being written U+XXXX; a path is only compared.  A JSON value is kept as *)
(* its type and whether Python finds it falsy, a string with its text.     *)
(***************************************************************************)
LowerLetters == <<"a", "b", "c", "d", "e", "f", "g", "h", "i", "j", "k", "l", "m",
                  "n", "o", "p", "q", "r", "s", "t", "u", "v", "w", "x", "y", "z">>

UpperLetters == <<"A", "B", "C", "D", "E", "F", "G", "H", "I", "J", "K", "L", "M",
                  "N", "O", "P", "Q", "R", "S", "T", "U", "V", "W", "X", "Y", "Z">>

\* c.upper() for every character outside ASCII that str.upper() changes, as
\* the Unicode data of Python gives it (a character outside ASCII is written
\* U+XXXX).
UpperPairs ==
  {<<"U+00B5", <<"U+039C">>>>, <<"U+00DF", <<"S", "S">>>>, <<"U+00E0", <<"U+00C0">>>>,
   <<"U+00E1", <<"U+00C1">>>>, <<"U+00E2", <<"U+00C2">>>>, <<"U+00E3", <<"U+00C3">>>>,
   <<"U+00E4", <<"U+00C4">>>>, <<"U+00E5", <<"U+00C5">>>>, <<"U+00E6", <<"U+00C6">>>>,
   <<"U+00E7", <<"U+00C7">>>>, <<"U+00E8", <<"U+00C8">>>>, <<"U+00E9", <<"U+00C9">>>>,
   <<"U+00EA", <<"U+00CA">>>>, <<"U+00EB", <<"U+00CB">>>>, <<"U+00EC", <<"U+00CC">>>>,
   <<"U+00ED", <<"U+00CD">>>>, <<"U+00EE", <<"U+00CE">>>>, <<"U+00EF", <<"U+00CF">>>>,
   <<"U+00F0", <<"U+00D0">>>>, <<"U+00F1", <<"U+00D1">>>>, <<"U+00F2", <<"U+00D2">>>>,
   <<"U+00F3", <<"U+00D3">>>>, <<"U+00F4", <<"U+00D4">>>>, <<"U+00F5", <<"U+00D5">>>>,
   <<"U+00F6", <<"U+00D6">>>>, <<"U+00F8", <<"U+00D8">>>>, <<"U+00F9", <<"U+00D9">>>>,
   <<"U+00FA", <<"U+00DA">>>>, <<"U+00FB", <<"U+00DB">>>>, <<"U+00FC", <<"U+00DC">>>>,
   <<"U+00FD", <<"U+00DD">>>>, <<"U+00FE", <<"U+00DE">>>>, <<"U+00FF", <<"U+0178">>>>,
   <<"U+0101", <<"U+0100">>>>, <<"U+0103", <<"U+0102">>>>, <<"U+0105", <<"U+0104">>>>,
   <<"U+0107", <<"U+0106">>>>, <<"U+0109", <<"U+0108">>>>, <<"U+010B", <<"U+010A">>>>,
   <<"U+010D", <<"U+010C">>>>, <<"U+010F", <<"U+010E">>>>, <<"U+0111", <<"U+0110">>>>,
   <<"U+0113", <<"U+0112">>>>, <<"U+0115", <<"U+0114">>>>, <<"U+0117", <<"U+0116">>>>,
   <<"U+0119", <<"U+0118">>>>, <<"U+011B", <<"U+011A">>>>, <<"U+011D", <<"U+011C">>>>,
   <<"U+011F", <<"U+011E">>>>, <<"U+0121", <<"U+0120">>>>, <<"U+0123", <<"U+0122">>>>,
   <<"U+0125", <<"U+0124">>>>, <<"U+0127", <<"U+0126">>>>, <<"U+0129", <<"U+0128">>>>,
   <<"U+012B", <<"U+012A">>>>, <<"U+012D", <<"U+012C">>>>, <<"U+012F", <<"U+012E">>>>,
   <<"U+0131", <<"I">>>>, <<"U+0133", <<"U+0132">>>>, <<"U+0135", <<"U+0134">>>>,
   <<"U+0137", <<"U+0136">>>>, <<"U+013A", <<"U+0139">>>>, <<"U+013C", <<"U+013B">>>>,
   <<"U+013E", <<"U+013D">>>>, <<"U+0140", <<"U+013F">>>>, <<"U+0142", <<"U+0141">>>>,
   <<"U+0144", <<"U+0143">>>>, <<"U+0146", <<"U+0145">>>>, <<"U+0148", <<"U+0147">>>>,
   <<"U+0149", <<"U+02BC", "N">>>>, <<"U+014B", <<"U+014A">>>>, <<"U+014D", <<"U+014C">>>>,
   <<"U+014F", <<"U+014E">>>>, <<"U+0151", <<"U+0150">>>>, <<"U+0153", <<"U+0152">>>>,
   <<"U+0155", <<"U+0154">>>>, <<"U+0157", <<"U+0156">>>>, <<"U+0159", <<"U+0158">>>>,
   <<"U+015B", <<"U+015A">>>>, <<"U+015D", <<"U+015C">>>>, <<"U+015F", <<"U+015E">>>>,
   <<"U+0161", <<"U+0160">>>>, <<"U+0163", <<"U+0162">>>>, <<"U+0165", <<"U+0164">>>>,
   <<"U+0167", <<"U+0166">>>>, <<"U+0169", <<"U+0168">>>>, <<"U+016B", <<"U+016A">>>>,
   <<"U+016D", <<"U+016C">>>>, <<"U+016F", <<"U+016E">>>>, <<"U+0171", <<"U+0170">>>>,
   <<"U+0173", <<"U+0172">>>>, <<"U+0175", <<"U+0174">>>>, <<"U+0177", <<"U+0176">>>>,
   <<"U+017A", <<"U+0179">>>>, <<"U+017C", <<"U+017B">>>>, <<"U+017E", <<"U+017D">>>>,
   <<"U+017F", <<"S">>>>, <<"U+0180", <<"U+0243">>>>, <<"U+0183", <<"U+0182">>>>,
   <<"U+0185", <<"U+0184">>>>, <<"U+0188", <<"U+0187">>>>, <<"U+018C", <<"U+018B">>>>,
   <<"U+0192", <<"U+0191">>>>, <<"U+0195", <<"U+01F6">>>>, <<"U+0199", <<"U+0198">>>>,
   <<"U+019A", <<"U+023D">>>>, <<"U+019E", <<"U+0220">>>>, <<"U+01A1", <<"U+01A0">>>>,
   <<"U+01A3", <<"U+01A2">>>>, <<"U+01A5", <<"U+01A4">>>>, <<"U+01A8", <<"U+01A7">>>>,
   <<"U+01AD", <<"U+01AC">>>>, <<"U+01B0", <<"U+01AF">>>>, <<"U+01B4", <<"U+01B3">>>>,
   <<"U+01B6", <<"U+01B5">>>>, <<"U+01B9", <<"U+01B8">>>>, <<"U+01BD", <<"U+01BC">>>>,
   <<"U+01BF", <<"U+01F7">>>>, <<"U+01C5", <<"U+01C4">>>>, <<"U+01C6", <<"U+01C4">>>>,
   <<"U+01C8", <<"U+01C7">>>>, <<"U+01C9", <<"U+01C7">>>>, <<"U+01CB", <<"U+01CA">>>>,
   <<"U+01CC", <<"U+01CA">>>>, <<"U+01CE", <<"U+01CD">>>>, <<"U+01D0", <<"U+01CF">>>>,
   <<"U+01D2", <<"U+01D1">>>>, <<"U+01D4", <<"U+01D3">>>>, <<"U+01D6", <<"U+01D5">>>>,
   <<"U+01D8", <<"U+01D7">>>>, <<"U+01DA", <<"U+01D9">>>>, <<"U+01DC", <<"U+01DB">>>>,
   <<"U+01DD", <<"U+018E">>>>, <<"U+01DF", <<"U+01DE">>>>, <<"U+01E1", <<"U+01E0">>>>,
   <<"U+01E3", <<"U+01E2">>>>, <<"U+01E5", <<"U+01E4">>>>, <<"U+01E7", <<"U+01E6">>>>,
   <<"U+01E9", <<"U+01E8">>>>, <<"U+01EB", <<"U+01EA">>>>, <<"U+01ED", <<"U+01EC">>>>,
   <<"U+01EF", <<"U+01EE">>>>, <<"U+01F0", <<"J", "U+030C">>>>, <<"U+01F2", <<"U+01F1">>>>,
   <<"U+01F3", <<"U+01F1">>>>, <<"U+01F5", <<"U+01F4">>>>, <<"U+01F9", <<"U+01F8">>>>,
   <<"U+01FB", <<"U+01FA">>>>, <<"U+01FD", <<"U+01FC">>>>, <<"U+01FF", <<"U+01FE">>>>,
   <<"U+0201", <<"U+0200">>>>, <<"U+0203", <<"U+0202">>>>, <<"U+0205", <<"U+0204">>>>,
   <<"U+0207", <<"U+0206">>>>, <<"U+0209", <<"U+0208">>>>, <<"U+020B", <<"U+020A">>>>,
   <<"U+020D", <<"U+020C">>>>, <<"U+020F", <<"U+020E">>>>, <<"U+0211", <<"U+0210">>>>,
   <<"U+0213", <<"U+0212">>>>, <<"U+0215", <<"U+0214">>>>, <<"U+0217", <<"U+0216">>>>,
   <<"U+0219", <<"U+0218">>>>, <<"U+021B", <<"U+021A">>>>, <<"U+021D", <<"U+021C">>>>,
   <<"U+021F", <<"U+021E">>>>, <<"U+0223", <<"U+0222">>>>, <<"U+0225", <<"U+0224">>>>,
   <<"U+0227", <<"U+0226">>>>, <<"U+0229", <<"U+0228">>>>, <<"U+022B", <<"U+022A">>>>,
   <<"U+022D", <<"U+022C">>>>, <<"U+022F", <<"U+022E">>>>, <<"U+0231", <<"U+0230">>>>,
   <<"U+0233", <<"U+0232">>>>, <<"U+023C", <<"U+023B">>>>, <<"U+023F", <<"U+2C7E">>>>,
   <<"U+0240", <<"U+2C7F">>>>, <<"U+0242", <<"U+0241">>>>, <<"U+0247", <<"U+0246">>>>,
   <<"U+0249", <<"U+0248">>>>, <<"U+024B", <<"U+024A">>>>, <<"U+024D", <<"U+024C">>>>,
   <<"U+024F", <<"U+024E">>>>, <<"U+0250", <<"U+2C6F">>>>, <<"U+0251", <<"U+2C6D">>>>,
   <<"U+0252", <<"U+2C70">>>>, <<"U+0253", <<"U+0181">>>>, <<"U+0254", <<"U+0186">>>>,
   <<"U+0256", <<"U+0189">>>>, <<"U+0257", <<"U+018A">>>>, <<"U+0259", <<"U+018F">>>>,
   <<"U+025B", <<"U+0190">>>>, <<"U+025C", <<"U+A7AB">>>>, <<"U+0260", <<"U+0193">>>>,
   <<"U+0261", <<"U+A7AC">>>>, <<"U+0263", <<"U+0194">>>>, <<"U+0265", <<"U+A78D">>>>,
   <<"U+0266", <<"U+A7AA">>>>, <<"U+0268", <<"U+0197">>>>, <<"U+0269", <<"U+0196">>>>,
   <<"U+026A", <<"U+A7AE">>>>, <<"U+026B", <<"U+2C62">>>>, <<"U+026C", <<"U+A7AD">>>>,
   <<"U+026F", <<"U+019C">>>>, <<"U+0271", <<"U+2C6E">>>>, <<"U+0272", <<"U+019D">>>>,
   <<"U+0275", <<"U+019F">>>>, <<"U+027D", <<"U+2C64">>>>, <<"U+0280", <<"U+01A6">>>>,
   <<"U+0282", <<"U+A7C5">>>>, <<"U+0283", <<"U+01A9">>>>, <<"U+0287", <<"U+A7B1">>>>,
   <<"U+0288", <<"U+01AE">>>>, <<"U+0289", <<"U+0244">>>>, <<"U+028A", <<"U+01B1">>>>,
   <<"U+028B", <<"U+01B2">>>>, <<"U+028C", <<"U+0245">>>>, <<"U+0292", <<"U+01B7">>>>,
   <<"U+029D", <<"U+A7B2">>>>, <<"U+029E", <<"U+A7B0">>>>, <<"U+0345", <<"U+0399">>>>,
   <<"U+0371", <<"U+0370">>>>, <<"U+0373", <<"U+0372">>>>, <<"U+0377", <<"U+0376">>>>,
   <<"U+037B", <<"U+03FD">>>>, <<"U+037C", <<"U+03FE">>>>, <<"U+037D", <<"U+03FF">>>>,
   <<"U+0390", <<"U+0399", "U+0308", "U+0301">>>>, <<"U+03AC", <<"U+0386">>>>, <<"U+03AD", <<"U+0388">>>>,
   <<"U+03AE", <<"U+0389">>>>, <<"U+03AF", <<"U+038A">>>>, <<"U+03B0", <<"U+03A5", "U+0308", "U+0301">>>>,
   <<"U+03B1", <<"U+0391">>>>, <<"U+03B2", <<"U+0392">>>>, <<"U+03B3", <<"U+0393">>>>,
   <<"U+03B4", <<"U+0394">>>>, <<"U+03B5", <<"U+0395">>>>, <<"U+03B6", <<"U+0396">>>>,
   <<"U+03B7", <<"U+0397">>>>, <<"U+03B8", <<"U+0398">>>>, <<"U+03B9", <<"U+0399">>>>,
   <<"U+03BA", <<"U+039A">>>>, <<"U+03BB", <<"U+039B">>>>, <<"U+03BC", <<"U+039C">>>>,
   <<"U+03BD", <<"U+039D">>>>, <<"U+03BE", <<"U+039E">>>>, <<"U+03BF", <<"U+039F">>>>,
   <<"U+03C0", <<"U+03A0">>>>, <<"U+03C1", <<"U+03A1">>>>, <<"U+03C2", <<"U+03A3">>>>,
   <<"U+03C3", <<"U+03A3">>>>, <<"U+03C4", <<"U+03A4">>>>, <<"U+03C5", <<"U+03A5">>>>,
   <<"U+03C6", <<"U+03A6">>>>, <<"U+03C7", <<"U+03A7">>>>, <<"U+03C8", <<"U+03A8">>>>,
   <<"U+03C9", <<"U+03A9">>>>, <<"U+03CA", <<"U+03AA">>>>, <<"U+03CB", <<"U+03AB">>>>,
   <<"U+03CC", <<"U+038C">>>>, <<"U+03CD", <<"U+038E">>>>, <<"U+03CE", <<"U+038F">>>>,
   <<"U+03D0", <<"U+0392">>>>, <<"U+03D1", <<"U+0398">>>>, <<"U+03D5", <<"U+03A6">>>>,
   <<"U+03D6", <<"U+03A0">>>>, <<"U+03D7", <<"U+03CF">>>>, <<"U+03D9", <<"U+03D8">>>>,
   <<"U+03DB", <<"U+03DA">>>>, <<"U+03DD", <<"U+03DC">>>>, <<"U+03DF", <<"U+03DE">>>>,
   <<"U+03E1", <<"U+03E0">>>>, <<"U+03E3", <<"U+03E2">>>>, <<"U+03E5", <<"U+03E4">>>>,
   <<"U+03E7", <<"U+03E6">>>>, <<"U+03E9", <<"U+03E8">>>>, <<"U+03EB", <<"U+03EA">>>>,
   <<"U+03ED", <<"U+03EC">>>>, <<"U+03EF", <<"U+03EE">>>>, <<"U+03F0", <<"U+039A">>>>,
   <<"U+03F1", <<"U+03A1">>>>, <<"U+03F2", <<"U+03F9">>>>, <<"U+03F3", <<"U+037F">>>>,
   <<"U+03F5", <<"U+0395">>>>, <<"U+03F8", <<"U+03F7">>>>, <<"U+03FB", <<"U+03FA">>>>,
   <<"U+0430", <<"U+0410">>>>, <<"U+0431", <<"U+0411">>>>, <<"U+0432", <<"U+0412">>>>,
   <<"U+0433", <<"U+0413">>>>, <<"U+0434", <<"U+0414">>>>, <<"U+0435", <<"U+0415">>>>,
   <<"U+0436", <<"U+0416">>>>, <<"U+0437", <<"U+0417">>>>, <<"U+0438", <<"U+0418">>>>,
   <<"U+0439", <<"U+0419">>>>, <<"U+043A", <<"U+041A">>>>, <<"U+043B", <<"U+041B">>>>,
   <<"U+043C", <<"U+041C">>>>, <<"U+043D", <<"U+041D">>>>, <<"U+043E", <<"U+041E">>>>,
   <<"U+043F", <<"U+041F">>>>, <<"U+0440", <<"U+0420">>>>, <<"U+0441", <<"U+0421">>>>,
   <<"U+0442", <<"U+0422">>>>, <<"U+0443", <<"U+0423">>>>, <<"U+0444", <<"U+0424">>>>,
   <<"U+0445", <<"U+0425">>>>, <<"U+0446", <<"U+0426">>>>, <<"U+0447", <<"U+0427">>>>,
   <<"U+0448", <<"U+0428">>>>, <<"U+0449", <<"U+0429">>>>, <<"U+044A", <<"U+042A">>>>,
   <<"U+044B", <<"U+042B">>>>, <<"U+044C", <<"U+042C">>>>, <<"U+044D", <<"U+042D">>>>,
   <<"U+044E", <<"U+042E">>>>, <<"U+044F", <<"U+042F">>>>, <<"U+0450", <<"U+0400">>>>,
   <<"U+0451", <<"U+0401">>>>, <<"U+0452", <<"U+0402">>>>, <<"U+0453", <<"U+0403">>>>,
   <<"U+0454", <<"U+0404">>>>, <<"U+0455", <<"U+0405">>>>, <<"U+0456", <<"U+0406">>>>,
   <<"U+0457", <<"U+0407">>>>, <<"U+0458", <<"U+0408">>>>, <<"U+0459", <<"U+0409">>>>,
   <<"U+045A", <<"U+040A">>>>, <<"U+045B", <<"U+040B">>>>, <<"U+045C", <<"U+040C">>>>,
   <<"U+045D", <<"U+040D">>>>, <<"U+045E", <<"U+040E">>>>, <<"U+045F", <<"U+040F">>>>,
   <<"U+0461", <<"U+0460">>>>, <<"U+0463", <<"U+0462">>>>, <<"U+0465", <<"U+0464">>>>,
   <<"U+0467", <<"U+0466">>>>, <<"U+0469", <<"U+0468">>>>, <<"U+046B", <<"U+046A">>>>,
   <<"U+046D", <<"U+046C">>>>, <<"U+046F", <<"U+046E">>>>, <<"U+0471", <<"U+0470">>>>,
   <<"U+0473", <<"U+0472">>>>, <<"U+0475", <<"U+0474">>>>, <<"U+0477", <<"U+0476">>>>,
   <<"U+0479", <<"U+0478">>>>, <<"U+047B", <<"U+047A">>>>, <<"U+047D", <<"U+047C">>>>,
   <<"U+047F", <<"U+047E">>>>, <<"U+0481", <<"U+0480">>>>, <<"U+048B", <<"U+048A">>>>,
   <<"U+048D", <<"U+048C">>>>, <<"U+048F", <<"U+048E">>>>, <<"U+0491", <<"U+0490">>>>,
   <<"U+0493", <<"U+0492">>>>, <<"U+0495", <<"U+0494">>>>, <<"U+0497", <<"U+0496">>>>,
   <<"U+0499", <<"U+0498">>>>, <<"U+049B", <<"U+049A">>>>, <<"U+049D", <<"U+049C">>>>,
   <<"U+049F", <<"U+049E">>>>, <<"U+04A1", <<"U+04A0">>>>, <<"U+04A3", <<"U+04A2">>>>,
   <<"U+04A5", <<"U+04A4">>>>, <<"U+04A7", <<"U+04A6">>>>, <<"U+04A9", <<"U+04A8">>>>,
   <<"U+04AB", <<"U+04AA">>>>, <<"U+04AD", <<"U+04AC">>>>, <<"U+04AF", <<"U+04AE">>>>,
   <<"U+04B1", <<"U+04B0">>>>, <<"U+04B3", <<"U+04B2">>>>, <<"U+04B5", <<"U+04B4">>>>,
   <<"U+04B7", <<"U+04B6">>>>, <<"U+04B9", <<"U+04B8">>>>, <<"U+04BB", <<"U+04BA">>>>,
   <<"U+04BD", <<"U+04BC">>>>, <<"U+04BF", <<"U+04BE">>>>, <<"U+04C2", <<"U+04C1">>>>,
   <<"U+04C4", <<"U+04C3">>>>, <<"U+04C6", <<"U+04C5">>>>, <<"U+04C8", <<"U+04C7">>>>,
   <<"U+04CA", <<"U+04C9">>>>, <<"U+04CC", <<"U+04CB">>>>, <<"U+04CE", <<"U+04CD">>>>,
   <<"U+04CF", <<"U+04C0">>>>, <<"U+04D1", <<"U+04D0">>>>, <<"U+04D3", <<"U+04D2">>>>,
   <<"U+04D5", <<"U+04D4">>>>, <<"U+04D7", <<"U+04D6">>>>, <<"U+04D9", <<"U+04D8">>>>,
   <<"U+04DB", <<"U+04DA">>>>, <<"U+04DD", <<"U+04DC">>>>, <<"U+04DF", <<"U+04DE">>>>,
   <<"U+04E1", <<"U+04E0">>>>, <<"U+04E3", <<"U+04E2">>>>, <<"U+04E5", <<"U+04E4">>>>,
   <<"U+04E7", <<"U+04E6">>>>, <<"U+04E9", <<"U+04E8">>>>, <<"U+04EB", <<"U+04EA">>>>,
   <<"U+04ED", <<"U+04EC">>>>, <<"U+04EF", <<"U+04EE">>>>, <<"U+04F1", <<"U+04F0">>>>,
   <<"U+04F3", <<"U+04F2">>>>, <<"U+04F5", <<"U+04F4">>>>, <<"U+04F7", <<"U+04F6">>>>,
   <<"U+04F9", <<"U+04F8">>>>, <<"U+04FB", <<"U+04FA">>>>, <<"U+04FD", <<"U+04FC">>>>,
   <<"U+04FF", <<"U+04FE">>>>, <<"U+0501", <<"U+0500">>>>, <<"U+0503", <<"U+0502">>>>,
   <<"U+0505", <<"U+0504">>>>, <<"U+0507", <<"U+0506">>>>, <<"U+0509", <<"U+0508">>>>,
   <<"U+050B", <<"U+050A">>>>, <<"U+050D", <<"U+050C">>>>, <<"U+050F", <<"U+050E">>>>,
   <<"U+0511", <<"U+0510">>>>, <<"U+0513", <<"U+0512">>>>, <<"U+0515", <<"U+0514">>>>,
   <<"U+0517", <<"U+0516">>>>, <<"U+0519", <<"U+0518">>>>, <<"U+051B", <<"U+051A">>>>,
   <<"U+051D", <<"U+051C">>>>, <<"U+051F", <<"U+051E">>>>, <<"U+0521", <<"U+0520">>>>,
   <<"U+0523", <<"U+0522">>>>, <<"U+0525", <<"U+0524">>>>, <<"U+0527", <<"U+0526">>>>,
   <<"U+0529", <<"U+0528">>>>, <<"U+052B", <<"U+052A">>>>, <<"U+052D", <<"U+052C">>>>,
   <<"U+052F", <<"U+052E">>>>, <<"U+0561", <<"U+0531">>>>, <<"U+0562", <<"U+0532">>>>,
   <<"U+0563", <<"U+0533">>>>, <<"U+0564", <<"U+0534">>>>, <<"U+0565", <<"U+0535">>>>,
   <<"U+0566", <<"U+0536">>>>, <<"U+0567", <<"U+0537">>>>, <<"U+0568", <<"U+0538">>>>,
   <<"U+0569", <<"U+0539">>>>, <<"U+056A", <<"U+053A">>>>, <<"U+056B", <<"U+053B">>>>,
   <<"U+056C", <<"U+053C">>>>, <<"U+056D", <<"U+053D">>>>, <<"U+056E", <<"U+053E">>>>,
   <<"U+056F", <<"U+053F">>>>, <<"U+0570", <<"U+0540">>>>, <<"U+0571", <<"U+0541">>>>,
   <<"U+0572", <<"U+0542">>>>, <<"U+0573", <<"U+0543">>>>, <<"U+0574", <<"U+0544">>>>,
   <<"U+0575", <<"U+0545">>>>, <<"U+0576", <<"U+0546">>>>, <<"U+0577", <<"U+0547">>>>,
   <<"U+0578", <<"U+0548">>>>, <<"U+0579", <<"U+0549">>>>, <<"U+057A", <<"U+054A">>>>,
   <<"U+057B", <<"U+054B">>>>, <<"U+057C", <<"U+054C">>>>, <<"U+057D", <<"U+054D">>>>,
   <<"U+057E", <<"U+054E">>>>, <<"U+057F", <<"U+054F">>>>, <<"U+0580", <<"U+0550">>>>,
   <<"U+0581", <<"U+0551">>>>, <<"U+0582", <<"U+0552">>>>, <<"U+0583", <<"U+0553">>>>,
   <<"U+0584", <<"U+0554">>>>, <<"U+0585", <<"U+0555">>>>, <<"U+0586", <<"U+0556">>>>,
   <<"U+0587", <<"U+0535", "U+0552">>>>, <<"U+10D0", <<"U+1C90">>>>, <<"U+10D1", <<"U+1C91">>>>,
   <<"U+10D2", <<"U+1C92">>>>, <<"U+10D3", <<"U+1C93">>>>, <<"U+10D4", <<"U+1C94">>>>,
   <<"U+10D5", <<"U+1C95">>>>, <<"U+10D6", <<"U+1C96">>>>, <<"U+10D7", <<"U+1C97">>>>,
   <<"U+10D8", <<"U+1C98">>>>, <<"U+10D9", <<"U+1C99">>>>, <<"U+10DA", <<"U+1C9A">>>>,
   <<"U+10DB", <<"U+1C9B">>>>, <<"U+10DC", <<"U+1C9C">>>>, <<"U+10DD", <<"U+1C9D">>>>,
   <<"U+10DE", <<"U+1C9E">>>>, <<"U+10DF", <<"U+1C9F">>>>, <<"U+10E0", <<"U+1CA0">>>>,
   <<"U+10E1", <<"U+1CA1">>>>, <<"U+10E2", <<"U+1CA2">>>>, <<"U+10E3", <<"U+1CA3">>>>,
   <<"U+10E4", <<"U+1CA4">>>>, <<"U+10E5", <<"U+1CA5">>>>, <<"U+10E6", <<"U+1CA6">>>>,
   <<"U+10E7", <<"U+1CA7">>>>, <<"U+10E8", <<"U+1CA8">>>>, <<"U+10E9", <<"U+1CA9">>>>,
   <<"U+10EA", <<"U+1CAA">>>>, <<"U+10EB", <<"U+1CAB">>>>, <<"U+10EC", <<"U+1CAC">>>>,
   <<"U+10ED", <<"U+1CAD">>>>, <<"U+10EE", <<"U+1CAE">>>>, <<"U+10EF", <<"U+1CAF">>>>,
   <<"U+10F0", <<"U+1CB0">>>>, <<"U+10F1", <<"U+1CB1">>>>, <<"U+10F2", <<"U+1CB2">>>>,
   <<"U+10F3", <<"U+1CB3">>>>, <<"U+10F4", <<"U+1CB4">>>>, <<"U+10F5", <<"U+1CB5">>>>,
   <<"U+10F6", <<"U+1CB6">>>>, <<"U+10F7", <<"U+1CB7">>>>, <<"U+10F8", <<"U+1CB8">>>>,
   <<"U+10F9", <<"U+1CB9">>>>, <<"U+10FA", <<"U+1CBA">>>>, <<"U+10FD", <<"U+1CBD">>>>,
   <<"U+10FE", <<"U+1CBE">>>>, <<"U+10FF", <<"U+1CBF">>>>, <<"U+13F8", <<"U+13F0">>>>,
   <<"U+13F9", <<"U+13F1">>>>, <<"U+13FA", <<"U+13F2">>>>, <<"U+13FB", <<"U+13F3">>>>,
   <<"U+13FC", <<"U+13F4">>>>, <<"U+13FD", <<"U+13F5">>>>, <<"U+1C80", <<"U+0412">>>>,
   <<"U+1C81", <<"U+0414">>>>, <<"U+1C82", <<"U+041E">>>>, <<"U+1C83", <<"U+0421">>>>,
   <<"U+1C84", <<"U+0422">>>>, <<"U+1C85", <<"U+0422">>>>, <<"U+1C86", <<"U+042A">>>>,
   <<"U+1C87", <<"U+0462">>>>, <<"U+1C88", <<"U+A64A">>>>, <<"U+1D79", <<"U+A77D">>>>,
   <<"U+1D7D", <<"U+2C63">>>>, <<"U+1D8E", <<"U+A7C6">>>>, <<"U+1E01", <<"U+1E00">>>>,
   <<"U+1E03", <<"U+1E02">>>>, <<"U+1E05", <<"U+1E04">>>>, <<"U+1E07", <<"U+1E06">>>>,
   <<"U+1E09", <<"U+1E08">>>>, <<"U+1E0B", <<"U+1E0A">>>>, <<"U+1E0D", <<"U+1E0C">>>>,
   <<"U+1E0F", <<"U+1E0E">>>>, <<"U+1E11", <<"U+1E10">>>>, <<"U+1E13", <<"U+1E12">>>>,
   <<"U+1E15", <<"U+1E14">>>>, <<"U+1E17", <<"U+1E16">>>>, <<"U+1E19", <<"U+1E18">>>>,
   <<"U+1E1B", <<"U+1E1A">>>>, <<"U+1E1D", <<"U+1E1C">>>>, <<"U+1E1F", <<"U+1E1E">>>>,
   <<"U+1E21", <<"U+1E20">>>>, <<"U+1E23", <<"U+1E22">>>>, <<"U+1E25", <<"U+1E24">>>>,
   <<"U+1E27", <<"U+1E26">>>>, <<"U+1E29", <<"U+1E28">>>>, <<"U+1E2B", <<"U+1E2A">>>>,
   <<"U+1E2D", <<"U+1E2C">>>>, <<"U+1E2F", <<"U+1E2E">>>>, <<"U+1E31", <<"U+1E30">>>>,
   <<"U+1E33", <<"U+1E32">>>>, <<"U+1E35", <<"U+1E34">>>>, <<"U+1E37", <<"U+1E36">>>>,
   <<"U+1E39", <<"U+1E38">>>>, <<"U+1E3B", <<"U+1E3A">>>>, <<"U+1E3D", <<"U+1E3C">>>>,
   <<"U+1E3F", <<"U+1E3E">>>>, <<"U+1E41", <<"U+1E40">>>>, <<"U+1E43", <<"U+1E42">>>>,
   <<"U+1E45", <<"U+1E44">>>>, <<"U+1E47", <<"U+1E46">>>>, <<"U+1E49", <<"U+1E48">>>>,
   <<"U+1E4B", <<"U+1E4A">>>>, <<"U+1E4D", <<"U+1E4C">>>>, <<"U+1E4F", <<"U+1E4E">>>>,
   <<"U+1E51", <<"U+1E50">>>>, <<"U+1E53", <<"U+1E52">>>>, <<"U+1E55", <<"U+1E54">>>>,
   <<"U+1E57", <<"U+1E56">>>>, <<"U+1E59", <<"U+1E58">>>>, <<"U+1E5B", <<"U+1E5A">>>>,
   <<"U+1E5D", <<"U+1E5C">>>>, <<"U+1E5F", <<"U+1E5E">>>>, <<"U+1E61", <<"U+1E60">>>>,
   <<"U+1E63", <<"U+1E62">>>>, <<"U+1E65", <<"U+1E64">>>>, <<"U+1E67", <<"U+1E66">>>>,
   <<"U+1E69", <<"U+1E68">>>>, <<"U+1E6B", <<"U+1E6A">>>>, <<"U+1E6D", <<"U+1E6C">>>>,
   <<"U+1E6F", <<"U+1E6E">>>>, <<"U+1E71", <<"U+1E70">>>>, <<"U+1E73", <<"U+1E72">>>>,
   <<"U+1E75", <<"U+1E74">>>>, <<"U+1E77", <<"U+1E76">>>>, <<"U+1E79", <<"U+1E78">>>>,
   <<"U+1E7B", <<"U+1E7A">>>>, <<"U+1E7D", <<"U+1E7C">>>>, <<"U+1E7F", <<"U+1E7E">>>>,
   <<"U+1E81", <<"U+1E80">>>>, <<"U+1E83", <<"U+1E82">>>>, <<"U+1E85", <<"U+1E84">>>>,
   <<"U+1E87", <<"U+1E86">>>>, <<"U+1E89", <<"U+1E88">>>>, <<"U+1E8B", <<"U+1E8A">>>>,
   <<"U+1E8D", <<"U+1E8C">>>>, <<"U+1E8F", <<"U+1E8E">>>>, <<"U+1E91", <<"U+1E90">>>>,
   <<"U+1E93", <<"U+1E92">>>>, <<"U+1E95", <<"U+1E94">>>>, <<"U+1E96", <<"H", "U+0331">>>>,
   <<"U+1E97", <<"T", "U+0308">>>>, <<"U+1E98", <<"W", "U+030A">>>>, <<"U+1E99", <<"Y", "U+030A">>>>,
   <<"U+1E9A", <<"A", "U+02BE">>>>, <<"U+1E9B", <<"U+1E60">>>>, <<"U+1EA1", <<"U+1EA0">>>>,
   <<"U+1EA3", <<"U+1EA2">>>>, <<"U+1EA5", <<"U+1EA4">>>>, <<"U+1EA7", <<"U+1EA6">>>>,
   <<"U+1EA9", <<"U+1EA8">>>>, <<"U+1EAB", <<"U+1EAA">>>>, <<"U+1EAD", <<"U+1EAC">>>>,
   <<"U+1EAF", <<"U+1EAE">>>>, <<"U+1EB1", <<"U+1EB0">>>>, <<"U+1EB3", <<"U+1EB2">>>>,
   <<"U+1EB5", <<"U+1EB4">>>>, <<"U+1EB7", <<"U+1EB6">>>>, <<"U+1EB9", <<"U+1EB8">>>>,
   <<"U+1EBB", <<"U+1EBA">>>>, <<"U+1EBD", <<"U+1EBC">>>>, <<"U+1EBF", <<"U+1EBE">>>>,
   <<"U+1EC1", <<"U+1EC0">>>>, <<"U+1EC3", <<"U+1EC2">>>>, <<"U+1EC5", <<"U+1EC4">>>>,
   <<"U+1EC7", <<"U+1EC6">>>>, <<"U+1EC9", <<"U+1EC8">>>>, <<"U+1ECB", <<"U+1ECA">>>>,
   <<"U+1ECD", <<"U+1ECC">>>>, <<"U+1ECF", <<"U+1ECE">>>>, <<"U+1ED1", <<"U+1ED0">>>>,
   <<"U+1ED3", <<"U+1ED2">>>>, <<"U+1ED5", <<"U+1ED4">>>>, <<"U+1ED7", <<"U+1ED6">>>>,
   <<"U+1ED9", <<"U+1ED8">>>>, <<"U+1EDB", <<"U+1EDA">>>>, <<"U+1EDD", <<"U+1EDC">>>>,
   <<"U+1EDF", <<"U+1EDE">>>>, <<"U+1EE1", <<"U+1EE0">>>>, <<"U+1EE3", <<"U+1EE2">>>>,
   <<"U+1EE5", <<"U+1EE4">>>>, <<"U+1EE7", <<"U+1EE6">>>>, <<"U+1EE9", <<"U+1EE8">>>>,
   <<"U+1EEB", <<"U+1EEA">>>>, <<"U+1EED", <<"U+1EEC">>>>, <<"U+1EEF", <<"U+1EEE">>>>,
   <<"U+1EF1", <<"U+1EF0">>>>, <<"U+1EF3", <<"U+1EF2">>>>, <<"U+1EF5", <<"U+1EF4">>>>,
   <<"U+1EF7", <<"U+1EF6">>>>, <<"U+1EF9", <<"U+1EF8">>>>, <<"U+1EFB", <<"U+1EFA">>>>,
   <<"U+1EFD", <<"U+1EFC">>>>, <<"U+1EFF", <<"U+1EFE">>>>, <<"U+1F00", <<"U+1F08">>>>,
   <<"U+1F01", <<"U+1F09">>>>, <<"U+1F02", <<"U+1F0A">>>>, <<"U+1F03", <<"U+1F0B">>>>,
   <<"U+1F04", <<"U+1F0C">>>>, <<"U+1F05", <<"U+1F0D">>>>, <<"U+1F06", <<"U+1F0E">>>>,
   <<"U+1F07", <<"U+1F0F">>>>, <<"U+1F10", <<"U+1F18">>>>, <<"U+1F11", <<"U+1F19">>>>,
   <<"U+1F12", <<"U+1F1A">>>>, <<"U+1F13", <<"U+1F1B">>>>, <<"U+1F14", <<"U+1F1C">>>>,
   <<"U+1F15", <<"U+1F1D">>>>, <<"U+1F20", <<"U+1F28">>>>, <<"U+1F21", <<"U+1F29">>>>,
   <<"U+1F22", <<"U+1F2A">>>>, <<"U+1F23", <<"U+1F2B">>>>, <<"U+1F24", <<"U+1F2C">>>>,
   <<"U+1F25", <<"U+1F2D">>>>, <<"U+1F26", <<"U+1F2E">>>>, <<"U+1F27", <<"U+1F2F">>>>,
   <<"U+1F30", <<"U+1F38">>>>, <<"U+1F31", <<"U+1F39">>>>, <<"U+1F32", <<"U+1F3A">>>>,
   <<"U+1F33", <<"U+1F3B">>>>, <<"U+1F34", <<"U+1F3C">>>>, <<"U+1F35", <<"U+1F3D">>>>,
   <<"U+1F36", <<"U+1F3E">>>>, <<"U+1F37", <<"U+1F3F">>>>, <<"U+1F40", <<"U+1F48">>>>,
   <<"U+1F41", <<"U+1F49">>>>, <<"U+1F42", <<"U+1F4A">>>>, <<"U+1F43", <<"U+1F4B">>>>,
   <<"U+1F44", <<"U+1F4C">>>>, <<"U+1F45", <<"U+1F4D">>>>, <<"U+1F50", <<"U+03A5", "U+0313">>>>,
   <<"U+1F51", <<"U+1F59">>>>, <<"U+1F52", <<"U+03A5", "U+0313", "U+0300">>>>, <<"U+1F53", <<"U+1F5B">>>>,
   <<"U+1F54", <<"U+03A5", "U+0313", "U+0301">>>>, <<"U+1F55", <<"U+1F5D">>>>, <<"U+1F56", <<"U+03A5", "U+0313", "U+0342">>>>,
   <<"U+1F57", <<"U+1F5F">>>>, <<"U+1F60", <<"U+1F68">>>>, <<"U+1F61", <<"U+1F69">>>>,
   <<"U+1F62", <<"U+1F6A">>>>, <<"U+1F63", <<"U+1F6B">>>>, <<"U+1F64", <<"U+1F6C">>>>,
   <<"U+1F65", <<"U+1F6D">>>>, <<"U+1F66", <<"U+1F6E">>>>, <<"U+1F67", <<"U+1F6F">>>>,
   <<"U+1F70", <<"U+1FBA">>>>, <<"U+1F71", <<"U+1FBB">>>>, <<"U+1F72", <<"U+1FC8">>>>,
   <<"U+1F73", <<"U+1FC9">>>>, <<"U+1F74", <<"U+1FCA">>>>, <<"U+1F75", <<"U+1FCB">>>>,
   <<"U+1F76", <<"U+1FDA">>>>, <<"U+1F77", <<"U+1FDB">>>>, <<"U+1F78", <<"U+1FF8">>>>,
   <<"U+1F79", <<"U+1FF9">>>>, <<"U+1F7A", <<"U+1FEA">>>>, <<"U+1F7B", <<"U+1FEB">>>>,
   <<"U+1F7C", <<"U+1FFA">>>>, <<"U+1F7D", <<"U+1FFB">>>>, <<"U+1F80", <<"U+1F08", "U+0399">>>>,
   <<"U+1F81", <<"U+1F09", "U+0399">>>>, <<"U+1F82", <<"U+1F0A", "U+0399">>>>, <<"U+1F83", <<"U+1F0B", "U+0399">>>>,
   <<"U+1F84", <<"U+1F0C", "U+0399">>>>, <<"U+1F85", <<"U+1F0D", "U+0399">>>>, <<"U+1F86", <<"U+1F0E", "U+0399">>>>,
   <<"U+1F87", <<"U+1F0F", "U+0399">>>>, <<"U+1F88", <<"U+1F08", "U+0399">>>>, <<"U+1F89", <<"U+1F09", "U+0399">>>>,
   <<"U+1F8A", <<"U+1F0A", "U+0399">>>>, <<"U+1F8B", <<"U+1F0B", "U+0399">>>>, <<"U+1F8C", <<"U+1F0C", "U+0399">>>>,
   <<"U+1F8D", <<"U+1F0D", "U+0399">>>>, <<"U+1F8E", <<"U+1F0E", "U+0399">>>>, <<"U+1F8F", <<"U+1F0F", "U+0399">>>>,
   <<"U+1F90", <<"U+1F28", "U+0399">>>>, <<"U+1F91", <<"U+1F29", "U+0399">>>>, <<"U+1F92", <<"U+1F2A", "U+0399">>>>,
   <<"U+1F93", <<"U+1F2B", "U+0399">>>>, <<"U+1F94", <<"U+1F2C", "U+0399">>>>, <<"U+1F95", <<"U+1F2D", "U+0399">>>>,
   <<"U+1F96", <<"U+1F2E", "U+0399">>>>, <<"U+1F97", <<"U+1F2F", "U+0399">>>>, <<"U+1F98", <<"U+1F28", "U+0399">>>>,
   <<"U+1F99", <<"U+1F29", "U+0399">>>>, <<"U+1F9A", <<"U+1F2A", "U+0399">>>>, <<"U+1F9B", <<"U+1F2B", "U+0399">>>>,
   <<"U+1F9C", <<"U+1F2C", "U+0399">>>>, <<"U+1F9D", <<"U+1F2D", "U+0399">>>>, <<"U+1F9E", <<"U+1F2E", "U+0399">>>>,
   <<"U+1F9F", <<"U+1F2F", "U+0399">>>>, <<"U+1FA0", <<"U+1F68", "U+0399">>>>, <<"U+1FA1", <<"U+1F69", "U+0399">>>>,
   <<"U+1FA2", <<"U+1F6A", "U+0399">>>>, <<"U+1FA3", <<"U+1F6B", "U+0399">>>>, <<"U+1FA4", <<"U+1F6C", "U+0399">>>>,
   <<"U+1FA5", <<"U+1F6D", "U+0399">>>>, <<"U+1FA6", <<"U+1F6E", "U+0399">>>>, <<"U+1FA7", <<"U+1F6F", "U+0399">>>>,
   <<"U+1FA8", <<"U+1F68", "U+0399">>>>, <<"U+1FA9", <<"U+1F69", "U+0399">>>>, <<"U+1FAA", <<"U+1F6A", "U+0399">>>>,
   <<"U+1FAB", <<"U+1F6B", "U+0399">>>>, <<"U+1FAC", <<"U+1F6C", "U+0399">>>>, <<"U+1FAD", <<"U+1F6D", "U+0399">>>>,
   <<"U+1FAE", <<"U+1F6E", "U+0399">>>>, <<"U+1FAF", <<"U+1F6F", "U+0399">>>>, <<"U+1FB0", <<"U+1FB8">>>>,
   <<"U+1FB1", <<"U+1FB9">>>>, <<"U+1FB2", <<"U+1FBA", "U+0399">>>>, <<"U+1FB3", <<"U+0391", "U+0399">>>>,
   <<"U+1FB4", <<"U+0386", "U+0399">>>>, <<"U+1FB6", <<"U+0391", "U+0342">>>>, <<"U+1FB7", <<"U+0391", "U+0342", "U+0399">>>>,
   <<"U+1FBC", <<"U+0391", "U+0399">>>>, <<"U+1FBE", <<"U+0399">>>>, <<"U+1FC2", <<"U+1FCA", "U+0399">>>>,
   <<"U+1FC3", <<"U+0397", "U+0399">>>>, <<"U+1FC4", <<"U+0389", "U+0399">>>>, <<"U+1FC6", <<"U+0397", "U+0342">>>>,
   <<"U+1FC7", <<"U+0397", "U+0342", "U+0399">>>>, <<"U+1FCC", <<"U+0397", "U+0399">>>>, <<"U+1FD0", <<"U+1FD8">>>>,
   <<"U+1FD1", <<"U+1FD9">>>>, <<"U+1FD2", <<"U+0399", "U+0308", "U+0300">>>>, <<"U+1FD3", <<"U+0399", "U+0308", "U+0301">>>>,
   <<"U+1FD6", <<"U+0399", "U+0342">>>>, <<"U+1FD7", <<"U+0399", "U+0308", "U+0342">>>>, <<"U+1FE0", <<"U+1FE8">>>>,
   <<"U+1FE1", <<"U+1FE9">>>>, <<"U+1FE2", <<"U+03A5", "U+0308", "U+0300">>>>, <<"U+1FE3", <<"U+03A5", "U+0308", "U+0301">>>>,
   <<"U+1FE4", <<"U+03A1", "U+0313">>>>, <<"U+1FE5", <<"U+1FEC">>>>, <<"U+1FE6", <<"U+03A5", "U+0342">>>>,
   <<"U+1FE7", <<"U+03A5", "U+0308", "U+0342">>>>, <<"U+1FF2", <<"U+1FFA", "U+0399">>>>, <<"U+1FF3", <<"U+03A9", "U+0399">>>>,
   <<"U+1FF4", <<"U+038F", "U+0399">>>>, <<"U+1FF6", <<"U+03A9", "U+0342">>>>, <<"U+1FF7", <<"U+03A9", "U+0342", "U+0399">>>>,
   <<"U+1FFC", <<"U+03A9", "U+0399">>>>, <<"U+214E", <<"U+2132">>>>, <<"U+2170", <<"U+2160">>>>,
   <<"U+2171", <<"U+2161">>>>, <<"U+2172", <<"U+2162">>>>, <<"U+2173", <<"U+2163">>>>,
   <<"U+2174", <<"U+2164">>>>, <<"U+2175", <<"U+2165">>>>, <<"U+2176", <<"U+2166">>>>,
   <<"U+2177", <<"U+2167">>>>, <<"U+2178", <<"U+2168">>>>, <<"U+2179", <<"U+2169">>>>,
   <<"U+217A", <<"U+216A">>>>, <<"U+217B", <<"U+216B">>>>, <<"U+217C", <<"U+216C">>>>,
   <<"U+217D", <<"U+216D">>>>, <<"U+217E", <<"U+216E">>>>, <<"U+217F", <<"U+216F">>>>,
   <<"U+2184", <<"U+2183">>>>, <<"U+24D0", <<"U+24B6">>>>, <<"U+24D1", <<"U+24B7">>>>,
   <<"U+24D2", <<"U+24B8">>>>, <<"U+24D3", <<"U+24B9">>>>, <<"U+24D4", <<"U+24BA">>>>,
   <<"U+24D5", <<"U+24BB">>>>, <<"U+24D6", <<"U+24BC">>>>, <<"U+24D7", <<"U+24BD">>>>,
   <<"U+24D8", <<"U+24BE">>>>, <<"U+24D9", <<"U+24BF">>>>, <<"U+24DA", <<"U+24C0">>>>,
   <<"U+24DB", <<"U+24C1">>>>, <<"U+24DC", <<"U+24C2">>>>, <<"U+24DD", <<"U+24C3">>>>,
   <<"U+24DE", <<"U+24C4">>>>, <<"U+24DF", <<"U+24C5">>>>, <<"U+24E0", <<"U+24C6">>>>,
   <<"U+24E1", <<"U+24C7">>>>, <<"U+24E2", <<"U+24C8">>>>, <<"U+24E3", <<"U+24C9">>>>,
   <<"U+24E4", <<"U+24CA">>>>, <<"U+24E5", <<"U+24CB">>>>, <<"U+24E6", <<"U+24CC">>>>,
   <<"U+24E7", <<"U+24CD">>>>, <<"U+24E8", <<"U+24CE">>>>, <<"U+24E9", <<"U+24CF">>>>,
   <<"U+2C30", <<"U+2C00">>>>, <<"U+2C31", <<"U+2C01">>>>, <<"U+2C32", <<"U+2C02">>>>,
   <<"U+2C33", <<"U+2C03">>>>, <<"U+2C34", <<"U+2C04">>>>, <<"U+2C35", <<"U+2C05">>>>,
   <<"U+2C36", <<"U+2C06">>>>, <<"U+2C37", <<"U+2C07">>>>, <<"U+2C38", <<"U+2C08">>>>,
   <<"U+2C39", <<"U+2C09">>>>, <<"U+2C3A", <<"U+2C0A">>>>, <<"U+2C3B", <<"U+2C0B">>>>,
   <<"U+2C3C", <<"U+2C0C">>>>, <<"U+2C3D", <<"U+2C0D">>>>, <<"U+2C3E", <<"U+2C0E">>>>,
   <<"U+2C3F", <<"U+2C0F">>>>, <<"U+2C40", <<"U+2C10">>>>, <<"U+2C41", <<"U+2C11">>>>,
   <<"U+2C42", <<"U+2C12">>>>, <<"U+2C43", <<"U+2C13">>>>, <<"U+2C44", <<"U+2C14">>>>,
   <<"U+2C45", <<"U+2C15">>>>, <<"U+2C46", <<"U+2C16">>>>, <<"U+2C47", <<"U+2C17">>>>,
   <<"U+2C48", <<"U+2C18">>>>, <<"U+2C49", <<"U+2C19">>>>, <<"U+2C4A", <<"U+2C1A">>>>,
   <<"U+2C4B", <<"U+2C1B">>>>, <<"U+2C4C", <<"U+2C1C">>>>, <<"U+2C4D", <<"U+2C1D">>>>,
   <<"U+2C4E", <<"U+2C1E">>>>, <<"U+2C4F", <<"U+2C1F">>>>, <<"U+2C50", <<"U+2C20">>>>,
   <<"U+2C51", <<"U+2C21">>>>, <<"U+2C52", <<"U+2C22">>>>, <<"U+2C53", <<"U+2C23">>>>,
   <<"U+2C54", <<"U+2C24">>>>, <<"U+2C55", <<"U+2C25">>>>, <<"U+2C56", <<"U+2C26">>>>,
   <<"U+2C57", <<"U+2C27">>>>, <<"U+2C58", <<"U+2C28">>>>, <<"U+2C59", <<"U+2C29">>>>,
   <<"U+2C5A", <<"U+2C2A">>>>, <<"U+2C5B", <<"U+2C2B">>>>, <<"U+2C5C", <<"U+2C2C">>>>,
   <<"U+2C5D", <<"U+2C2D">>>>, <<"U+2C5E", <<"U+2C2E">>>>, <<"U+2C5F", <<"U+2C2F">>>>,
   <<"U+2C61", <<"U+2C60">>>>, <<"U+2C65", <<"U+023A">>>>, <<"U+2C66", <<"U+023E">>>>,
   <<"U+2C68", <<"U+2C67">>>>, <<"U+2C6A", <<"U+2C69">>>>, <<"U+2C6C", <<"U+2C6B">>>>,
   <<"U+2C73", <<"U+2C72">>>>, <<"U+2C76", <<"U+2C75">>>>, <<"U+2C81", <<"U+2C80">>>>,
   <<"U+2C83", <<"U+2C82">>>>, <<"U+2C85", <<"U+2C84">>>>, <<"U+2C87", <<"U+2C86">>>>,
   <<"U+2C89", <<"U+2C88">>>>, <<"U+2C8B", <<"U+2C8A">>>>, <<"U+2C8D", <<"U+2C8C">>>>,
   <<"U+2C8F", <<"U+2C8E">>>>, <<"U+2C91", <<"U+2C90">>>>, <<"U+2C93", <<"U+2C92">>>>,
   <<"U+2C95", <<"U+2C94">>>>, <<"U+2C97", <<"U+2C96">>>>, <<"U+2C99", <<"U+2C98">>>>,
   <<"U+2C9B", <<"U+2C9A">>>>, <<"U+2C9D", <<"U+2C9C">>>>, <<"U+2C9F", <<"U+2C9E">>>>,
   <<"U+2CA1", <<"U+2CA0">>>>, <<"U+2CA3", <<"U+2CA2">>>>, <<"U+2CA5", <<"U+2CA4">>>>,
   <<"U+2CA7", <<"U+2CA6">>>>, <<"U+2CA9", <<"U+2CA8">>>>, <<"U+2CAB", <<"U+2CAA">>>>,
   <<"U+2CAD", <<"U+2CAC">>>>, <<"U+2CAF", <<"U+2CAE">>>>, <<"U+2CB1", <<"U+2CB0">>>>,
   <<"U+2CB3", <<"U+2CB2">>>>, <<"U+2CB5", <<"U+2CB4">>>>, <<"U+2CB7", <<"U+2CB6">>>>,
   <<"U+2CB9", <<"U+2CB8">>>>, <<"U+2CBB", <<"U+2CBA">>>>, <<"U+2CBD", <<"U+2CBC">>>>,
   <<"U+2CBF", <<"U+2CBE">>>>, <<"U+2CC1", <<"U+2CC0">>>>, <<"U+2CC3", <<"U+2CC2">>>>,
   <<"U+2CC5", <<"U+2CC4">>>>, <<"U+2CC7", <<"U+2CC6">>>>, <<"U+2CC9", <<"U+2CC8">>>>,
   <<"U+2CCB", <<"U+2CCA">>>>, <<"U+2CCD", <<"U+2CCC">>>>, <<"U+2CCF", <<"U+2CCE">>>>,
   <<"U+2CD1", <<"U+2CD0">>>>, <<"U+2CD3", <<"U+2CD2">>>>, <<"U+2CD5", <<"U+2CD4">>>>,
   <<"U+2CD7", <<"U+2CD6">>>>, <<"U+2CD9", <<"U+2CD8">>>>, <<"U+2CDB", <<"U+2CDA">>>>,
   <<"U+2CDD", <<"U+2CDC">>>>, <<"U+2CDF", <<"U+2CDE">>>>, <<"U+2CE1", <<"U+2CE0">>>>,
   <<"U+2CE3", <<"U+2CE2">>>>, <<"U+2CEC", <<"U+2CEB">>>>, <<"U+2CEE", <<"U+2CED">>>>,
   <<"U+2CF3", <<"U+2CF2">>>>, <<"U+2D00", <<"U+10A0">>>>, <<"U+2D01", <<"U+10A1">>>>,
   <<"U+2D02", <<"U+10A2">>>>, <<"U+2D03", <<"U+10A3">>>>, <<"U+2D04", <<"U+10A4">>>>,
   <<"U+2D05", <<"U+10A5">>>>, <<"U+2D06", <<"U+10A6">>>>, <<"U+2D07", <<"U+10A7">>>>,
   <<"U+2D08", <<"U+10A8">>>>, <<"U+2D09", <<"U+10A9">>>>, <<"U+2D0A", <<"U+10AA">>>>,
   <<"U+2D0B", <<"U+10AB">>>>, <<"U+2D0C", <<"U+10AC">>>>, <<"U+2D0D", <<"U+10AD">>>>,
   <<"U+2D0E", <<"U+10AE">>>>, <<"U+2D0F", <<"U+10AF">>>>, <<"U+2D10", <<"U+10B0">>>>,
   <<"U+2D11", <<"U+10B1">>>>, <<"U+2D12", <<"U+10B2">>>>, <<"U+2D13", <<"U+10B3">>>>,
   <<"U+2D14", <<"U+10B4">>>>, <<"U+2D15", <<"U+10B5">>>>, <<"U+2D16", <<"U+10B6">>>>,
   <<"U+2D17", <<"U+10B7">>>>, <<"U+2D18", <<"U+10B8">>>>, <<"U+2D19", <<"U+10B9">>>>,
   <<"U+2D1A", <<"U+10BA">>>>, <<"U+2D1B", <<"U+10BB">>>>, <<"U+2D1C", <<"U+10BC">>>>,
   <<"U+2D1D", <<"U+10BD">>>>, <<"U+2D1E", <<"U+10BE">>>>, <<"U+2D1F", <<"U+10BF">>>>,
   <<"U+2D20", <<"U+10C0">>>>, <<"U+2D21", <<"U+10C1">>>>, <<"U+2D22", <<"U+10C2">>>>,
   <<"U+2D23", <<"U+10C3">>>>, <<"U+2D24", <<"U+10C4">>>>, <<"U+2D25", <<"U+10C5">>>>,
   <<"U+2D27", <<"U+10C7">>>>, <<"U+2D2D", <<"U+10CD">>>>, <<"U+A641", <<"U+A640">>>>,
   <<"U+A643", <<"U+A642">>>>, <<"U+A645", <<"U+A644">>>>, <<"U+A647", <<"U+A646">>>>,
   <<"U+A649", <<"U+A648">>>>, <<"U+A64B", <<"U+A64A">>>>, <<"U+A64D", <<"U+A64C">>>>,
   <<"U+A64F", <<"U+A64E">>>>, <<"U+A651", <<"U+A650">>>>, <<"U+A653", <<"U+A652">>>>,
   <<"U+A655", <<"U+A654">>>>, <<"U+A657", <<"U+A656">>>>, <<"U+A659", <<"U+A658">>>>,
   <<"U+A65B", <<"U+A65A">>>>, <<"U+A65D", <<"U+A65C">>>>, <<"U+A65F", <<"U+A65E">>>>,
   <<"U+A661", <<"U+A660">>>>, <<"U+A663", <<"U+A662">>>>, <<"U+A665", <<"U+A664">>>>,
   <<"U+A667", <<"U+A666">>>>, <<"U+A669", <<"U+A668">>>>, <<"U+A66B", <<"U+A66A">>>>,
   <<"U+A66D", <<"U+A66C">>>>, <<"U+A681", <<"U+A680">>>>, <<"U+A683", <<"U+A682">>>>,
   <<"U+A685", <<"U+A684">>>>, <<"U+A687", <<"U+A686">>>>, <<"U+A689", <<"U+A688">>>>,
   <<"U+A68B", <<"U+A68A">>>>, <<"U+A68D", <<"U+A68C">>>>, <<"U+A68F", <<"U+A68E">>>>,
   <<"U+A691", <<"U+A690">>>>, <<"U+A693", <<"U+A692">>>>, <<"U+A695", <<"U+A694">>>>,
   <<"U+A697", <<"U+A696">>>>, <<"U+A699", <<"U+A698">>>>, <<"U+A69B", <<"U+A69A">>>>,
   <<"U+A723", <<"U+A722">>>>, <<"U+A725", <<"U+A724">>>>, <<"U+A727", <<"U+A726">>>>,
   <<"U+A729", <<"U+A728">>>>, <<"U+A72B", <<"U+A72A">>>>, <<"U+A72D", <<"U+A72C">>>>,
   <<"U+A72F", <<"U+A72E">>>>, <<"U+A733", <<"U+A732">>>>, <<"U+A735", <<"U+A734">>>>,
   <<"U+A737", <<"U+A736">>>>, <<"U+A739", <<"U+A738">>>>, <<"U+A73B", <<"U+A73A">>>>,
   <<"U+A73D", <<"U+A73C">>>>, <<"U+A73F", <<"U+A73E">>>>, <<"U+A741", <<"U+A740">>>>,
   <<"U+A743", <<"U+A742">>>>, <<"U+A745", <<"U+A744">>>>, <<"U+A747", <<"U+A746">>>>,
   <<"U+A749", <<"U+A748">>>>, <<"U+A74B", <<"U+A74A">>>>, <<"U+A74D", <<"U+A74C">>>>,
   <<"U+A74F", <<"U+A74E">>>>, <<"U+A751", <<"U+A750">>>>, <<"U+A753", <<"U+A752">>>>,
   <<"U+A755", <<"U+A754">>>>, <<"U+A757", <<"U+A756">>>>, <<"U+A759", <<"U+A758">>>>,
   <<"U+A75B", <<"U+A75A">>>>, <<"U+A75D", <<"U+A75C">>>>, <<"U+A75F", <<"U+A75E">>>>,
   <<"U+A761", <<"U+A760">>>>, <<"U+A763", <<"U+A762">>>>, <<"U+A765", <<"U+A764">>>>,
   <<"U+A767", <<"U+A766">>>>, <<"U+A769", <<"U+A768">>>>, <<"U+A76B", <<"U+A76A">>>>,
   <<"U+A76D", <<"U+A76C">>>>, <<"U+A76F", <<"U+A76E">>>>, <<"U+A77A", <<"U+A779">>>>,
   <<"U+A77C", <<"U+A77B">>>>, <<"U+A77F", <<"U+A77E">>>>, <<"U+A781", <<"U+A780">>>>,
   <<"U+A783", <<"U+A782">>>>, <<"U+A785", <<"U+A784">>>>, <<"U+A787", <<"U+A786">>>>,
   <<"U+A78C", <<"U+A78B">>>>, <<"U+A791", <<"U+A790">>>>, <<"U+A793", <<"U+A792">>>>,
   <<"U+A794", <<"U+A7C4">>>>, <<"U+A797", <<"U+A796">>>>, <<"U+A799", <<"U+A798">>>>,
   <<"U+A79B", <<"U+A79A">>>>, <<"U+A79D", <<"U+A79C">>>>, <<"U+A79F", <<"U+A79E">>>>,
   <<"U+A7A1", <<"U+A7A0">>>>, <<"U+A7A3", <<"U+A7A2">>>>, <<"U+A7A5", <<"U+A7A4">>>>,
   <<"U+A7A7", <<"U+A7A6">>>>, <<"U+A7A9", <<"U+A7A8">>>>, <<"U+A7B5", <<"U+A7B4">>>>,
   <<"U+A7B7", <<"U+A7B6">>>>, <<"U+A7B9", <<"U+A7B8">>>>, <<"U+A7BB", <<"U+A7BA">>>>,
   <<"U+A7BD", <<"U+A7BC">>>>, <<"U+A7BF", <<"U+A7BE">>>>, <<"U+A7C1", <<"U+A7C0">>>>,
   <<"U+A7C3", <<"U+A7C2">>>>, <<"U+A7C8", <<"U+A7C7">>>>, <<"U+A7CA", <<"U+A7C9">>>>,
   <<"U+A7D1", <<"U+A7D0">>>>, <<"U+A7D7", <<"U+A7D6">>>>, <<"U+A7D9", <<"U+A7D8">>>>,
   <<"U+A7F6", <<"U+A7F5">>>>, <<"U+AB53", <<"U+A7B3">>>>, <<"U+AB70", <<"U+13A0">>>>,
   <<"U+AB71", <<"U+13A1">>>>, <<"U+AB72", <<"U+13A2">>>>, <<"U+AB73", <<"U+13A3">>>>,
   <<"U+AB74", <<"U+13A4">>>>, <<"U+AB75", <<"U+13A5">>>>, <<"U+AB76", <<"U+13A6">>>>,
   <<"U+AB77", <<"U+13A7">>>>, <<"U+AB78", <<"U+13A8">>>>, <<"U+AB79", <<"U+13A9">>>>,
   <<"U+AB7A", <<"U+13AA">>>>, <<"U+AB7B", <<"U+13AB">>>>, <<"U+AB7C", <<"U+13AC">>>>,
   <<"U+AB7D", <<"U+13AD">>>>, <<"U+AB7E", <<"U+13AE">>>>, <<"U+AB7F", <<"U+13AF">>>>,
   <<"U+AB80", <<"U+13B0">>>>, <<"U+AB81", <<"U+13B1">>>>, <<"U+AB82", <<"U+13B2">>>>,
   <<"U+AB83", <<"U+13B3">>>>, <<"U+AB84", <<"U+13B4">>>>, <<"U+AB85", <<"U+13B5">>>>,
   <<"U+AB86", <<"U+13B6">>>>, <<"U+AB87", <<"U+13B7">>>>, <<"U+AB88", <<"U+13B8">>>>,
   <<"U+AB89", <<"U+13B9">>>>, <<"U+AB8A", <<"U+13BA">>>>, <<"U+AB8B", <<"U+13BB">>>>,
   <<"U+AB8C", <<"U+13BC">>>>, <<"U+AB8D", <<"U+13BD">>>>, <<"U+AB8E", <<"U+13BE">>>>,
   <<"U+AB8F", <<"U+13BF">>>>, <<"U+AB90", <<"U+13C0">>>>, <<"U+AB91", <<"U+13C1">>>>,
   <<"U+AB92", <<"U+13C2">>>>, <<"U+AB93", <<"U+13C3">>>>, <<"U+AB94", <<"U+13C4">>>>,
   <<"U+AB95", <<"U+13C5">>>>, <<"U+AB96", <<"U+13C6">>>>, <<"U+AB97", <<"U+13C7">>>>,
   <<"U+AB98", <<"U+13C8">>>>, <<"U+AB99", <<"U+13C9">>>>, <<"U+AB9A", <<"U+13CA">>>>,
   <<"U+AB9B", <<"U+13CB">>>>, <<"U+AB9C", <<"U+13CC">>>>, <<"U+AB9D", <<"U+13CD">>>>,
   <<"U+AB9E", <<"U+13CE">>>>, <<"U+AB9F", <<"U+13CF">>>>, <<"U+ABA0", <<"U+13D0">>>>,
   <<"U+ABA1", <<"U+13D1">>>>, <<"U+ABA2", <<"U+13D2">>>>, <<"U+ABA3", <<"U+13D3">>>>,
   <<"U+ABA4", <<"U+13D4">>>>, <<"U+ABA5", <<"U+13D5">>>>, <<"U+ABA6", <<"U+13D6">>>>,
   <<"U+ABA7", <<"U+13D7">>>>, <<"U+ABA8", <<"U+13D8">>>>, <<"U+ABA9", <<"U+13D9">>>>,
   <<"U+ABAA", <<"U+13DA">>>>, <<"U+ABAB", <<"U+13DB">>>>, <<"U+ABAC", <<"U+13DC">>>>,
   <<"U+ABAD", <<"U+13DD">>>>, <<"U+ABAE", <<"U+13DE">>>>, <<"U+ABAF", <<"U+13DF">>>>,
   <<"U+ABB0", <<"U+13E0">>>>, <<"U+ABB1", <<"U+13E1">>>>, <<"U+ABB2", <<"U+13E2">>>>,
   <<"U+ABB3", <<"U+13E3">>>>, <<"U+ABB4", <<"U+13E4">>>>, <<"U+ABB5", <<"U+13E5">>>>,
   <<"U+ABB6", <<"U+13E6">>>>, <<"U+ABB7", <<"U+13E7">>>>, <<"U+ABB8", <<"U+13E8">>>>,
   <<"U+ABB9", <<"U+13E9">>>>, <<"U+ABBA", <<"U+13EA">>>>, <<"U+ABBB", <<"U+13EB">>>>,
   <<"U+ABBC", <<"U+13EC">>>>, <<"U+ABBD", <<"U+13ED">>>>, <<"U+ABBE", <<"U+13EE">>>>,
   <<"U+ABBF", <<"U+13EF">>>>, <<"U+FB00", <<"F", "F">>>>, <<"U+FB01", <<"F", "I">>>>,
   <<"U+FB02", <<"F", "L">>>>, <<"U+FB03", <<"F", "F", "I">>>>, <<"U+FB04", <<"F", "F", "L">>>>,
   <<"U+FB05", <<"S", "T">>>>, <<"U+FB06", <<"S", "T">>>>, <<"U+FB13", <<"U+0544", "U+0546">>>>,
   <<"U+FB14", <<"U+0544", "U+0535">>>>, <<"U+FB15", <<"U+0544", "U+053B">>>>, <<"U+FB16", <<"U+054E", "U+0546">>>>,
   <<"U+FB17", <<"U+0544", "U+053D">>>>, <<"U+FF41", <<"U+FF21">>>>, <<"U+FF42", <<"U+FF22">>>>,
   <<"U+FF43", <<"U+FF23">>>>, <<"U+FF44", <<"U+FF24">>>>, <<"U+FF45", <<"U+FF25">>>>,
   <<"U+FF46", <<"U+FF26">>>>, <<"U+FF47", <<"U+FF27">>>>, <<"U+FF48", <<"U+FF28">>>>,
   <<"U+FF49", <<"U+FF29">>>>, <<"U+FF4A", <<"U+FF2A">>>>, <<"U+FF4B", <<"U+FF2B">>>>,
   <<"U+FF4C", <<"U+FF2C">>>>, <<"U+FF4D", <<"U+FF2D">>>>, <<"U+FF4E", <<"U+FF2E">>>>,
   <<"U+FF4F", <<"U+FF2F">>>>, <<"U+FF50", <<"U+FF30">>>>, <<"U+FF51", <<"U+FF31">>>>,
   <<"U+FF52", <<"U+FF32">>>>, <<"U+FF53", <<"U+FF33">>>>, <<"U+FF54", <<"U+FF34">>>>,
   <<"U+FF55", <<"U+FF35">>>>, <<"U+FF56", <<"U+FF36">>>>, <<"U+FF57", <<"U+FF37">>>>,
   <<"U+FF58", <<"U+FF38">>>>, <<"U+FF59", <<"U+FF39">>>>, <<"U+FF5A", <<"U+FF3A">>>>,
   <<"U+10428", <<"U+10400">>>>, <<"U+10429", <<"U+10401">>>>, <<"U+1042A", <<"U+10402">>>>,
   <<"U+1042B", <<"U+10403">>>>, <<"U+1042C", <<"U+10404">>>>, <<"U+1042D", <<"U+10405">>>>,
   <<"U+1042E", <<"U+10406">>>>, <<"U+1042F", <<"U+10407">>>>, <<"U+10430", <<"U+10408">>>>,
   <<"U+10431", <<"U+10409">>>>, <<"U+10432", <<"U+1040A">>>>, <<"U+10433", <<"U+1040B">>>>,
   <<"U+10434", <<"U+1040C">>>>, <<"U+10435", <<"U+1040D">>>>, <<"U+10436", <<"U+1040E">>>>,
   <<"U+10437", <<"U+1040F">>>>, <<"U+10438", <<"U+10410">>>>, <<"U+10439", <<"U+10411">>>>,
   <<"U+1043A", <<"U+10412">>>>, <<"U+1043B", <<"U+10413">>>>, <<"U+1043C", <<"U+10414">>>>,
   <<"U+1043D", <<"U+10415">>>>, <<"U+1043E", <<"U+10416">>>>, <<"U+1043F", <<"U+10417">>>>,
   <<"U+10440", <<"U+10418">>>>, <<"U+10441", <<"U+10419">>>>, <<"U+10442", <<"U+1041A">>>>,
   <<"U+10443", <<"U+1041B">>>>, <<"U+10444", <<"U+1041C">>>>, <<"U+10445", <<"U+1041D">>>>,
   <<"U+10446", <<"U+1041E">>>>, <<"U+10447", <<"U+1041F">>>>, <<"U+10448", <<"U+10420">>>>,
   <<"U+10449", <<"U+10421">>>>, <<"U+1044A", <<"U+10422">>>>, <<"U+1044B", <<"U+10423">>>>,
   <<"U+1044C", <<"U+10424">>>>, <<"U+1044D", <<"U+10425">>>>, <<"U+1044E", <<"U+10426">>>>,
   <<"U+1044F", <<"U+10427">>>>, <<"U+104D8", <<"U+104B0">>>>, <<"U+104D9", <<"U+104B1">>>>,
   <<"U+104DA", <<"U+104B2">>>>, <<"U+104DB", <<"U+104B3">>>>, <<"U+104DC", <<"U+104B4">>>>,
   <<"U+104DD", <<"U+104B5">>>>, <<"U+104DE", <<"U+104B6">>>>, <<"U+104DF", <<"U+104B7">>>>,
   <<"U+104E0", <<"U+104B8">>>>, <<"U+104E1", <<"U+104B9">>>>, <<"U+104E2", <<"U+104BA">>>>,
   <<"U+104E3", <<"U+104BB">>>>, <<"U+104E4", <<"U+104BC">>>>, <<"U+104E5", <<"U+104BD">>>>,
   <<"U+104E6", <<"U+104BE">>>>, <<"U+104E7", <<"U+104BF">>>>, <<"U+104E8", <<"U+104C0">>>>,
   <<"U+104E9", <<"U+104C1">>>>, <<"U+104EA", <<"U+104C2">>>>, <<"U+104EB", <<"U+104C3">>>>,
   <<"U+104EC", <<"U+104C4">>>>, <<"U+104ED", <<"U+104C5">>>>, <<"U+104EE", <<"U+104C6">>>>,
   <<"U+104EF", <<"U+104C7">>>>, <<"U+104F0", <<"U+104C8">>>>, <<"U+104F1", <<"U+104C9">>>>,
   <<"U+104F2", <<"U+104CA">>>>, <<"U+104F3", <<"U+104CB">>>>, <<"U+104F4", <<"U+104CC">>>>,
   <<"U+104F5", <<"U+104CD">>>>, <<"U+104F6", <<"U+104CE">>>>, <<"U+104F7", <<"U+104CF">>>>,
   <<"U+104F8", <<"U+104D0">>>>, <<"U+104F9", <<"U+104D1">>>>, <<"U+104FA", <<"U+104D2">>>>,
   <<"U+104FB", <<"U+104D3">>>>, <<"U+10597", <<"U+10570">>>>, <<"U+10598", <<"U+10571">>>>,
   <<"U+10599", <<"U+10572">>>>, <<"U+1059A", <<"U+10573">>>>, <<"U+1059B", <<"U+10574">>>>,
   <<"U+1059C", <<"U+10575">>>>, <<"U+1059D", <<"U+10576">>>>, <<"U+1059E", <<"U+10577">>>>,
   <<"U+1059F", <<"U+10578">>>>, <<"U+105A0", <<"U+10579">>>>, <<"U+105A1", <<"U+1057A">>>>,
   <<"U+105A3", <<"U+1057C">>>>, <<"U+105A4", <<"U+1057D">>>>, <<"U+105A5", <<"U+1057E">>>>,
   <<"U+105A6", <<"U+1057F">>>>, <<"U+105A7", <<"U+10580">>>>, <<"U+105A8", <<"U+10581">>>>,
   <<"U+105A9", <<"U+10582">>>>, <<"U+105AA", <<"U+10583">>>>, <<"U+105AB", <<"U+10584">>>>,
   <<"U+105AC", <<"U+10585">>>>, <<"U+105AD", <<"U+10586">>>>, <<"U+105AE", <<"U+10587">>>>,
   <<"U+105AF", <<"U+10588">>>>, <<"U+105B0", <<"U+10589">>>>, <<"U+105B1", <<"U+1058A">>>>,
   <<"U+105B3", <<"U+1058C">>>>, <<"U+105B4", <<"U+1058D">>>>, <<"U+105B5", <<"U+1058E">>>>,
   <<"U+105B6", <<"U+1058F">>>>, <<"U+105B7", <<"U+10590">>>>, <<"U+105B8", <<"U+10591">>>>,
   <<"U+105B9", <<"U+10592">>>>, <<"U+105BB", <<"U+10594">>>>, <<"U+105BC", <<"U+10595">>>>,
   <<"U+10CC0", <<"U+10C80">>>>, <<"U+10CC1", <<"U+10C81">>>>, <<"U+10CC2", <<"U+10C82">>>>,
   <<"U+10CC3", <<"U+10C83">>>>, <<"U+10CC4", <<"U+10C84">>>>, <<"U+10CC5", <<"U+10C85">>>>,
   <<"U+10CC6", <<"U+10C86">>>>, <<"U+10CC7", <<"U+10C87">>>>, <<"U+10CC8", <<"U+10C88">>>>,
   <<"U+10CC9", <<"U+10C89">>>>, <<"U+10CCA", <<"U+10C8A">>>>, <<"U+10CCB", <<"U+10C8B">>>>,
   <<"U+10CCC", <<"U+10C8C">>>>, <<"U+10CCD", <<"U+10C8D">>>>, <<"U+10CCE", <<"U+10C8E">>>>,
   <<"U+10CCF", <<"U+10C8F">>>>, <<"U+10CD0", <<"U+10C90">>>>, <<"U+10CD1", <<"U+10C91">>>>,
   <<"U+10CD2", <<"U+10C92">>>>, <<"U+10CD3", <<"U+10C93">>>>, <<"U+10CD4", <<"U+10C94">>>>,
   <<"U+10CD5", <<"U+10C95">>>>, <<"U+10CD6", <<"U+10C96">>>>, <<"U+10CD7", <<"U+10C97">>>>,
   <<"U+10CD8", <<"U+10C98">>>>, <<"U+10CD9", <<"U+10C99">>>>, <<"U+10CDA", <<"U+10C9A">>>>,
   <<"U+10CDB", <<"U+10C9B">>>>, <<"U+10CDC", <<"U+10C9C">>>>, <<"U+10CDD", <<"U+10C9D">>>>,
   <<"U+10CDE", <<"U+10C9E">>>>, <<"U+10CDF", <<"U+10C9F">>>>, <<"U+10CE0", <<"U+10CA0">>>>,
   <<"U+10CE1", <<"U+10CA1">>>>, <<"U+10CE2", <<"U+10CA2">>>>, <<"U+10CE3", <<"U+10CA3">>>>,
   <<"U+10CE4", <<"U+10CA4">>>>, <<"U+10CE5", <<"U+10CA5">>>>, <<"U+10CE6", <<"U+10CA6">>>>,
   <<"U+10CE7", <<"U+10CA7">>>>, <<"U+10CE8", <<"U+10CA8">>>>, <<"U+10CE9", <<"U+10CA9">>>>,
   <<"U+10CEA", <<"U+10CAA">>>>, <<"U+10CEB", <<"U+10CAB">>>>, <<"U+10CEC", <<"U+10CAC">>>>,
   <<"U+10CED", <<"U+10CAD">>>>, <<"U+10CEE", <<"U+10CAE">>>>, <<"U+10CEF", <<"U+10CAF">>>>,
   <<"U+10CF0", <<"U+10CB0">>>>, <<"U+10CF1", <<"U+10CB1">>>>, <<"U+10CF2", <<"U+10CB2">>>>,
   <<"U+118C0", <<"U+118A0">>>>, <<"U+118C1", <<"U+118A1">>>>, <<"U+118C2", <<"U+118A2">>>>,
   <<"U+118C3", <<"U+118A3">>>>, <<"U+118C4", <<"U+118A4">>>>, <<"U+118C5", <<"U+118A5">>>>,
   <<"U+118C6", <<"U+118A6">>>>, <<"U+118C7", <<"U+118A7">>>>, <<"U+118C8", <<"U+118A8">>>>,
   <<"U+118C9", <<"U+118A9">>>>, <<"U+118CA", <<"U+118AA">>>>, <<"U+118CB", <<"U+118AB">>>>,
   <<"U+118CC", <<"U+118AC">>>>, <<"U+118CD", <<"U+118AD">>>>, <<"U+118CE", <<"U+118AE">>>>,
   <<"U+118CF", <<"U+118AF">>>>, <<"U+118D0", <<"U+118B0">>>>, <<"U+118D1", <<"U+118B1">>>>,
   <<"U+118D2", <<"U+118B2">>>>, <<"U+118D3", <<"U+118B3">>>>, <<"U+118D4", <<"U+118B4">>>>,
   <<"U+118D5", <<"U+118B5">>>>, <<"U+118D6", <<"U+118B6">>>>, <<"U+118D7", <<"U+118B7">>>>,
   <<"U+118D8", <<"U+118B8">>>>, <<"U+118D9", <<"U+118B9">>>>, <<"U+118DA", <<"U+118BA">>>>,
   <<"U+118DB", <<"U+118BB">>>>, <<"U+118DC", <<"U+118BC">>>>, <<"U+118DD", <<"U+118BD">>>>,
   <<"U+118DE", <<"U+118BE">>>>, <<"U+118DF", <<"U+118BF">>>>, <<"U+16E60", <<"U+16E40">>>>,
   <<"U+16E61", <<"U+16E41">>>>, <<"U+16E62", <<"U+16E42">>>>, <<"U+16E63", <<"U+16E43">>>>,
   <<"U+16E64", <<"U+16E44">>>>, <<"U+16E65", <<"U+16E45">>>>, <<"U+16E66", <<"U+16E46">>>>,
   <<"U+16E67", <<"U+16E47">>>>, <<"U+16E68", <<"U+16E48">>>>, <<"U+16E69", <<"U+16E49">>>>,
   <<"U+16E6A", <<"U+16E4A">>>>, <<"U+16E6B", <<"U+16E4B">>>>, <<"U+16E6C", <<"U+16E4C">>>>,
   <<"U+16E6D", <<"U+16E4D">>>>, <<"U+16E6E", <<"U+16E4E">>>>, <<"U+16E6F", <<"U+16E4F">>>>,
   <<"U+16E70", <<"U+16E50">>>>, <<"U+16E71", <<"U+16E51">>>>, <<"U+16E72", <<"U+16E52">>>>,
   <<"U+16E73", <<"U+16E53">>>>, <<"U+16E74", <<"U+16E54">>>>, <<"U+16E75", <<"U+16E55">>>>,
   <<"U+16E76", <<"U+16E56">>>>, <<"U+16E77", <<"U+16E57">>>>, <<"U+16E78", <<"U+16E58">>>>,
   <<"U+16E79", <<"U+16E59">>>>, <<"U+16E7A", <<"U+16E5A">>>>, <<"U+16E7B", <<"U+16E5B">>>>,
   <<"U+16E7C", <<"U+16E5C">>>>, <<"U+16E7D", <<"U+16E5D">>>>, <<"U+16E7E", <<"U+16E5E">>>>,
   <<"U+16E7F", <<"U+16E5F">>>>, <<"U+1E922", <<"U+1E900">>>>, <<"U+1E923", <<"U+1E901">>>>,
   <<"U+1E924", <<"U+1E902">>>>, <<"U+1E925", <<"U+1E903">>>>, <<"U+1E926", <<"U+1E904">>>>,
   <<"U+1E927", <<"U+1E905">>>>, <<"U+1E928", <<"U+1E906">>>>, <<"U+1E929", <<"U+1E907">>>>,
   <<"U+1E92A", <<"U+1E908">>>>, <<"U+1E92B", <<"U+1E909">>>>, <<"U+1E92C", <<"U+1E90A">>>>,
   <<"U+1E92D", <<"U+1E90B">>>>, <<"U+1E92E", <<"U+1E90C">>>>, <<"U+1E92F", <<"U+1E90D">>>>,
   <<"U+1E930", <<"U+1E90E">>>>, <<"U+1E931", <<"U+1E90F">>>>, <<"U+1E932", <<"U+1E910">>>>,
   <<"U+1E933", <<"U+1E911">>>>, <<"U+1E934", <<"U+1E912">>>>, <<"U+1E935", <<"U+1E913">>>>,
   <<"U+1E936", <<"U+1E914">>>>, <<"U+1E937", <<"U+1E915">>>>, <<"U+1E938", <<"U+1E916">>>>,
   <<"U+1E939", <<"U+1E917">>>>, <<"U+1E93A", <<"U+1E918">>>>, <<"U+1E93B", <<"U+1E919">>>>,
   <<"U+1E93C", <<"U+1E91A">>>>, <<"U+1E93D", <<"U+1E91B">>>>, <<"U+1E93E", <<"U+1E91C">>>>,
   <<"U+1E93F", <<"U+1E91D">>>>, <<"U+1E940", <<"U+1E91E">>>>, <<"U+1E941", <<"U+1E91F">>>>,
   <<"U+1E942", <<"U+1E920">>>>, <<"U+1E943", <<"U+1E921">>>>}

UpperMap ==
  [c \in {p[1] : p \in UpperPairs} |-> (CHOOSE p \in UpperPairs : p[1] = c)[2]]

\* c.upper() for one character: an ASCII letter, a character of the table,
\* or a character that is its own upper case.
UpperChar(c) ==
  IF \E k \in 1..26 : LowerLetters[k] = c
    THEN <<UpperLetters[CHOOSE k \in 1..26 : LowerLetters[k] = c]>>
  ELSE IF c \in DOMAIN UpperMap THEN UpperMap[c]
  ELSE <<c>>

\* str.upper(): the upper case of each character, one after the other.
Upper(str) == JoinBits([i \in 1..Len(str) |-> UpperChar(str[i])])

\* A key of environ: present with a value, or missing.
Present(v) == [present |-> TRUE, val |-> v]

Missing == [present |-> FALSE]

\* environ.get(key, default)
EnvironGet(entry, default) == IF entry.present THEN entry.val ELSE default

METHOD_GET == <<"G", "E", "T">>

METHOD_POST == <<"P", "O", "S", "T">>

\* A JSON string with its text; "not value" holds for the str "", which is
\* the text without any line and also the text of one line without characters.
JsonString(text) ==
  [type |-> "string", falsy |-> text \in {EmptySource, OneLine("")}, text |-> text]

\* The texts of the strings posted: nothing, the address and the source of
\* test_analyze_endpoint_accepts_post_payload, a contract without findings.
PostedTexts ==
  {EmptySource, OneLine(""), OneLine("0xabc123"), OneLine(TestAppLine),
   OneLine("contract X { }")}

\* The JSON values of a member: type, and whether "not value" holds in Python.
JsonValues ==
  {[type |-> "null", falsy |-> TRUE]}
  \cup {[type |-> t, falsy |-> f] :
          t \in {"number", "bool", "array", "object"}, f \in BOOLEAN}
  \cup {JsonString(text) : text \in PostedTexts}

\* payload.get(key) on the members of a JSON object.
PayloadGet(payload, key) ==
  IF key \in DOMAIN payload THEN payload[key] ELSE PyNone

\* A response that loses its extra headers (a plausible slip).
ResponseNoExtra(status, body, content_type, extra_headers) ==
  [kind |-> "response", status |-> status, body |-> body,
   headers |-> <<<<"Content-Type", content_type>>,
                 <<"Content-Length", [len_of |-> body]>>>>]

\* _response: calls start_response(status, headers) and returns [body].
Response(status, body, content_type, extra_headers) ==
  [kind |-> "response", status |-> status, body |-> body,
   headers |-> <<<<"Content-Type", content_type>>,
                 <<"Content-Length", [len_of |-> body]>>>> \o extra_headers]

\* length of _read_json_body: int(environ.get("CONTENT_LENGTH") or 0), 0 when
\* that raises or is negative.  The header is kept as the class of its text.
ContentLength(environ) ==
  LET cl == EnvironGet(environ.CONTENT_LENGTH, "none")
      sent == environ.body.len
      length == CASE cl \in {"none", "empty", "zero", "garbage", "negative"} -> 0
                  [] cl = "short" -> sent - 1
                  [] cl = "exact" -> sent
                  [] cl = "long" -> sent + 1
  IN IF length < 0 THEN 0 ELSE length

\* _read_json_body: the payload, or the exception raised.  The bytes read are
\* the first "length" ones of the body sent.  None of them reads as no text.
\* An object, array or string that lost its last byte is invalid JSON; the
\* other bodies read as before without it (a number is all digits, a literal
\* is followed by whitespace, the ill-formed bodies are ill-formed from
\* their first bytes on).  An object holding an integer of more digits than
\* int() converts makes json.loads raise a plain ValueError, with or without
\* its last byte.
ReadJsonBody(environ) ==
  LET length == ContentLength(environ)
      sent == environ.body
      form == IF length = 0 \/ sent.len = 0 THEN "empty"
              ELSE IF /\ length < sent.len /\ sent.form = "json"
                      /\ sent.top \in {"object", "array", "string"} THEN "bad_json"
              ELSE sent.form
  IN CASE form = "empty" -> [kind |-> "value", payload |-> <<>>]
       [] form = "bad_utf8" ->
            [kind |-> "raised", error |-> "UnicodeDecodeError", value_error |-> TRUE,
             msg |-> "codec can't decode"]
       [] form = "bad_json" ->
            [kind |-> "raised", error |-> "ValueError", value_error |-> TRUE,
             msg |-> "Invalid JSON payload"]
       [] form = "big_int" ->
            [kind |-> "raised", error |-> "ValueError", value_error |-> TRUE,
             msg |-> "Exceeds the limit (4300 digits) for integer string conversion"]
       [] form = "too_deep" ->
            [kind |-> "raised", error |-> "RecursionError", value_error |-> FALSE,
             msg |-> "maximum recursion depth exceeded"]
       [] form = "json" /\ sent.top # "object" ->
            [kind |-> "raised", error |-> "ValueError", value_error |-> TRUE,
             msg |-> "JSON payload must be an object"]
       [] form = "json" /\ sent.top = "object" ->
            [kind |-> "value", payload |-> sent.members]

\* The branch of application for the path /api/analyze.
ApiAnalyze(method, environ) ==
  IF method # METHOD_POST
    THEN [calls |-> <<>>,
          out |-> Response("405 Method Not Allowed", "Method Not Allowed",
                           "text/plain; charset=utf-8", <<<<"Allow", "POST">>>>)]
  ELSE
    LET read == ReadJsonBody(environ)
        payload == read.payload
        address == PayloadGet(payload, "address")
        source == PayloadGet(payload, "source")
        metadata == PayloadGet(payload, "metadata")
        bad(msg) == [calls |-> <<"read_json_body">>,
                     out |-> Response("400 Bad Request", msg,
                                      "text/plain; charset=utf-8", <<>>)]
    IN IF read.kind = "raised"
         THEN IF read.value_error
                THEN bad(read.msg)
                ELSE [calls |-> <<"read_json_body">>,
                      out |-> [kind |-> "raised", error |-> read.error]]
       ELSE IF address.falsy \/ address.type # "string"
         THEN bad("'address' must be a non-empty string")
       ELSE IF source.falsy \/ source.type # "string"
         THEN bad("'source' must be provided as Solidity text")
       ELSE IF metadata.type # "null" /\ metadata.type # "object"
         THEN bad("'metadata' must be an object when provided")
       ELSE [calls |-> <<"read_json_body", "analyze_contract">>,
             out |-> Response("200 OK",
                       [json |-> analyze_contract(address.text, source.text,
                                                  OrEmptyDict(metadata))],
                       "application/json; charset=utf-8", <<>>)]

\* application(environ, start_response): the calls made and the outcome.
Application(environ) ==
  LET path == EnvironGet(environ.PATH_INFO, "/")
      method == Upper(EnvironGet(environ.REQUEST_METHOD, METHOD_GET))
  IN IF path \in {"", "/"} /\ method = METHOD_GET
       THEN [calls |-> <<"render_index">>,
             out |-> Response("200 OK", [html |-> "index"], "text/html; charset=utf-8", <<>>)]
     ELSE IF path = "/api/checklist" /\ method = METHOD_GET
       THEN [calls |-> <<>>,
             out |-> Response("200 OK", [json |-> "sections"],
                              "application/json; charset=utf-8", <<>>)]
     ELSE IF path = "/api/analyze"
       THEN ApiAnalyze(method, environ)
     ELSE [calls |-> <<>>,
           out |-> Response("404 Not Found", "Not Found", "text/plain; charset=utf-8", <<>>)]

\* Paths and methods of the requests tried.
Paths == {"", "/", "/api/checklist", "/api/analyze", "/api/analyze/",
          "/API/ANALYZE", "/api", "/other"}

Methods == {METHOD_GET, METHOD_POST, <<"g", "e", "t">>, <<"p", "o", "s", "t">>,
            <<"P", "o", "s", "T">>, <<"P", "U", "T">>, <<"H", "E", "A", "D">>,
            <<"D", "E", "L", "E", "T", "E">>, <<"P", "O", "S", "T", "S">>,
            <<"P", "O", "S">>, <<"O", "P", "T", "I", "O", "N", "S">>, <<>>,
            <<"p", "o", "U+017F", "t">>, <<"p", "o", "U+FB06">>,
            <<"p", "o", "U+00DF", "t">>, <<"p", "U+0131", "s", "t">>,
            <<"g", "U+00E9", "t">>, <<"p", "o", "U+FB05">>, <<"P", "O", "U+FB05">>,
            <<"p", "U+00F6", "s", "t">>, <<"U+00FF">>, <<"g", "U+00E0", "t">>}

ContentLengths == {"empty", "zero", "garbage", "negative", "short", "exact", "long"}

\* The length in bytes given to every body that is not empty.
BodyLen == 40

\* The length in bytes of a body of that many opening brackets, nested more
\* deeply than the JSON parser recurses.
DeepBodyLen == 100000

\* The length in bytes of the object holding an integer of 5000 digits.
BigIntBodyLen == 5082

\* Bodies: nothing, bytes that are not UTF-8, text that is not JSON, JSON
\* nested too deeply to parse, a complete object whose metadata holds an
\* integer of 5000 digits, JSON that is not an object.
PlainBodies ==
  {[form |-> "empty", len |-> 0, top |-> "none", members |-> <<>>],
   [form |-> "big_int", len |-> BigIntBodyLen, top |-> "object",
    members |-> [k \in {"address", "source", "metadata"} |->
                   CASE k = "address" -> JsonString(OneLine("0xabc123"))
                     [] k = "source" -> JsonString(OneLine("target.delegatecall(data);"))
                     [] k = "metadata" -> [type |-> "object", falsy |-> FALSE]]],
   [form |-> "bad_utf8", len |-> BodyLen, top |-> "none", members |-> <<>>],
   [form |-> "bad_json", len |-> BodyLen, top |-> "none", members |-> <<>>],
   [form |-> "too_deep", len |-> DeepBodyLen, top |-> "array", members |-> <<>>]}
  \cup {[form |-> "json", len |-> BodyLen, top |-> t, members |-> <<>>] :
          t \in {"array", "string", "number", "bool", "null"}}

\* JSON objects with any of the members address, source and metadata.
ObjectBodies ==
  {[form |-> "json", len |-> BodyLen, top |-> "object", members |-> m] :
     m \in UNION {[K -> JsonValues] : K \in SUBSET {"address", "source", "metadata"}}}

\* The request object of test_analyze_endpoint_accepts_post_payload, for the
\* requests that vary in path and method.
SampleObject ==
  [form |-> "json", len |-> BodyLen, top |-> "object",
   members |-> [k \in {"address", "source"} |->
                  IF k = "address" THEN JsonString(OneLine("0xabc123"))
                  ELSE JsonString(OneLine(TestAppLine))]]

AppIdle == aenv = [kind |-> "none"] /\ aresp = NoResult /\ alog = <<>>

\* Any path with any method, or any body posted to /api/analyze.
AppInit ==
  /\ \/ \E p \in Paths \cup {"absent"}, m \in Methods \cup {<<"absent">>},
          c \in {"exact", "zero"}, b \in PlainBodies \cup {SampleObject} :
          aenv = [PATH_INFO |-> IF p = "absent" THEN Missing ELSE Present(p),
                  REQUEST_METHOD |-> IF m = <<"absent">> THEN Missing ELSE Present(m),
                  CONTENT_LENGTH |-> Present(c), body |-> b]
     \/ \E m \in {METHOD_POST, <<"p", "o", "s", "t">>},
          c \in ContentLengths \cup {"absent"}, b \in PlainBodies \cup ObjectBodies :
          aenv = [PATH_INFO |-> Present("/api/analyze"),
                  REQUEST_METHOD |-> Present(m),
                  CONTENT_LENGTH |-> IF c = "absent" THEN Missing ELSE Present(c),
                  body |-> b]
  /\ aresp = NoResult
  /\ alog = <<>>

\* One call of application(environ, start_response).
AppHandle ==
  /\ aresp = NoResult
  /\ LET r == Application(aenv)
     IN aresp' = r.out /\ alog' = r.calls
  /\ UNCHANGED aenv
  /\ UNCHANGED not_app

AppDone == aresp.kind # "none"

(***************************************************************************)
(* Specifications.                                                         *)
(***************************************************************************)
InitField == FieldInit /\ SharesIdle /\ CodecIdle /\ MainIdle /\ AppIdle /\ AnalysisIdle

NextField == FieldBinary \/ FieldInverse

SpecField == InitField /\ [][NextField]_vars

InitShares == SharesInit /\ FieldIdle /\ CodecIdle /\ MainIdle /\ AppIdle /\ AnalysisIdle

NextShares == SharesReconstruct

SpecShares == InitShares /\ [][NextShares]_vars

InitCodec == CodecInit /\ FieldIdle /\ SharesIdle /\ MainIdle /\ AppIdle /\ AnalysisIdle

NextCodec == CodecEncode \/ CodecDecode \/ CodecRecode

SpecCodec == InitCodec /\ [][NextCodec]_vars

InitMain == MainInit /\ FieldIdle /\ SharesIdle /\ CodecIdle /\ AppIdle /\ AnalysisIdle

NextMain ==
  \/ MainLoad
  \/ MainDecode1
  \/ MainDecode2
  \/ MainReconstruct
  \/ MainEncode
  \/ MainSeed
  \/ MainPrint

SpecMain == InitMain /\ [][NextMain]_vars

InitApp == AppInit /\ FieldIdle /\ SharesIdle /\ CodecIdle /\ MainIdle /\ AnalysisIdle

NextApp == AppHandle

SpecApp == InitApp /\ [][NextApp]_vars

InitAnalysis ==
  AnalysisInit /\ FieldIdle /\ SharesIdle /\ CodecIdle /\ MainIdle /\ AppIdle

NextAnalysis == AnalyzeLonger

SpecAnalysis == InitAnalysis /\ [][NextAnalysis]_vars

(***************************************************************************)
(* Properties of the field arithmetic (SpecField).                         *)
(***************************************************************************)
\* C3: for all a, b, c in 0..255, _gf256_mul is commutative, associative and
\* distributes over _gf256_add, and _gf256_add is commutative.
C3_FieldAlgebra ==
  BinaryDone =>
    /\ fout.add = gf256_add(fb, fa)
    /\ fout.mul = gf256_mul(fb, fa)
    /\ fout.mul = MulTab[fa][fb]
    /\ \A c \in Byte :
         /\ MulTab[fa][MulTab[fb][c]] = MulTab[fout.mul][c]
         /\ MulTab[fa][AddTab[fb][c]] = AddTab[fout.mul][MulTab[fa][c]]

\* C3 witness: the product 0x57 * 0x83 = 0xc1 has been computed.
C3_Witness == BinaryDone /\ fa = 87 /\ fb = 131 /\ fout.mul = 193

\* The product of two polynomials over GF(2), bit i of b taking a times x^i.
RECURSIVE CarrylessProduct(_, _, _)
CarrylessProduct(a, b, i) ==
  IF i = 8 THEN 0
  ELSE BitXor(IF (b \div (2 ^ i)) % 2 = 1 THEN a * (2 ^ i) ELSE 0,
              CarrylessProduct(a, b, i + 1))

\* The remainder of a polynomial of degree at most deg divided by
\* x^8 + x^4 + x^3 + x + 1, by long division.
RECURSIVE PolyRemainder(_, _)
PolyRemainder(r, deg) ==
  IF deg < 8 THEN r
  ELSE PolyRemainder(IF (r \div (2 ^ deg)) % 2 = 1
                       THEN BitXor(r, 283 * (2 ^ (deg - 8))) ELSE r,
                     deg - 1)

\* The operand a of the loop is a byte now and after each of n more iterations.
RECURSIVE ShiftedStaysByte(_, _)
ShiftedStaysByte(st, n) ==
  /\ st[2] \in Byte
  /\ n > 0 => ShiftedStaysByte(gf256_mul_step(st), n - 1)

\* C14: for all a, b in 0..255 the eight iterations of _gf256_mul give the
\* carry-less product of a and b reduced modulo 0x11b; the shifted operand a
\* is below 256 after every iteration; the result is a byte; mul(a, 1) = a
\* and mul(a, 0) = 0.
C14_MulIsReducedProduct ==
  BinaryDone =>
    /\ fout.mul = PolyRemainder(CarrylessProduct(fa, fb, 0), 14)
    /\ ShiftedStaysByte(<<0, fa, fb>>, MulRounds)
    /\ fout.mul \in Byte
    /\ fb = 1 => fout.mul = fa
    /\ fb = 0 => fout.mul = 0

\* C14 witness: the product 0x57 * 0x13 = 0xfe has been computed, the operand
\* a having been reduced on the way.
C14_Witness ==
  /\ BinaryDone /\ fa = 87 /\ fb = 19 /\ fout.mul = 254
  /\ gf256_mul_step(<<0, fa, fb>>)[2] = 174
  /\ gf256_mul_loop(<<0, fa, fb>>, 2)[2] = 71

\* C4: for every nonzero a, _gf256_inverse(a) is a b in 1..255 with
\* _gf256_mul(a, b) = 1, and no other byte has this property; the search does
\* not fall through to the trailing "return 0".
C4_InverseUnique ==
  (InverseDone /\ fa # 0) =>
    /\ fout.inv \in 1..255
    /\ gf256_mul(fa, fout.inv) = 1
    /\ \A c \in Byte : MulTab[fa][c] = 1 => c = fout.inv
    /\ gf256_inverse_hits(fa, 1) # {}

\* C4 witness: the inverse of 0x53 is 0xca.
C4_Witness == InverseDone /\ fa = 83 /\ fout.inv = 202

\* C8 as stated: the inverse of the zero element is an UndefinedInverse error.
C8_ZeroInverseRaises ==
  (InverseDone /\ fa = 0) => fout.raised = "UndefinedInverse"

\* C8 amended: the inverse of the zero element raises nothing and returns the
\* sentinel 0, which is no inverse of 0 (0 times it is not 1).
C8_ZeroInverseSentinel ==
  (InverseDone /\ fa = 0) =>
    /\ fout.raised = "none"
    /\ fout.inv = 0
    /\ gf256_mul(fa, fout.inv) # 1

\* C8 witness: the inverse of zero has been requested and answered.
C8_Witness == InverseDone /\ fa = 0 /\ fout.inv = 0 /\ fout.raised = "none"

(***************************************************************************)
(* Properties of the share reconstruction (SpecShares).                    *)
(***************************************************************************)
\* The shares are the points at x = 1 and x = 2, whole.
SharesGood ==
  /\ sx1 = 1 /\ sx2 = 2
  /\ sh1 = MakeShare(sS, sB, 1) /\ sh2 = MakeShare(sS, sB, 2)

\* C1: when share1[i] = add(S[i], B[i]) and share2[i] = add(S[i], mul(B[i], 2)),
\* the reconstruction step returns a_i = S[i] at every byte position, so the
\* reconstruction of the two 16-byte shares is S.
C1_Reconstruction ==
  (SharesDone /\ SharesGood) =>
    /\ \A i \in 1..EntropyLen :
         /\ sh1[i] = gf256_add(sS[i], sB[i])
         /\ ReconstructByte(sh1[i], sh2[i]) = sS[i]
    /\ sout.kind = "value"
    /\ Len(sout.secret) = EntropyLen
    /\ sout.secret = sS

\* C1 witness: a secret with a nonzero blinding vector has been reconstructed
\* from shares that both differ from it.
C1_Witness ==
  /\ SharesDone /\ SharesGood /\ sout.kind = "value"
  /\ sS[1] = 80 /\ sB[1] = 201 /\ sh1[1] = 153 /\ sh1 # sS /\ sh2 # sS
  /\ sout.secret = sS

\* C9 as stated: the reconstruction fails whenever the indices of the two
\* shares are not the pair {1, 2}, so that a secret is computed only from a
\* share at x = 1 and a share at x = 2.
C9_IndicesChecked ==
  (SharesDone /\ {sx1, sx2} # {1, 2}) => sout.kind = "raised"

(***************************************************************************)
(* Properties of the mnemonic codec (SpecCodec).                           *)
(***************************************************************************)
\* The word is one of word list wl.
Listed(wl, word) == \E i \in 0..(WordlistSize - 1) : WordAt(wl, i) = word

\* C2: for every 16-byte entropy e and every list W of 2048 unique words,
\* mnemonic_to_bytes(bytes_to_mnemonic(e, W), W) = e, whatever the four
\* checksum bits are.
C2_RoundTrip ==
  (cop = "roundtrip" /\ Len(centropy) = EntropyLen) =>
    /\ cenc.kind \in {"none", "value"}
    /\ cenc.kind = "value" => Len(Split(cenc.mnemonic)) = MnemonicWords
    /\ DecodeDone => (cdec.kind = "value" /\ cdec.bytes = centropy)

\* C2 witness: an entropy of distinct bytes came back from a mnemonic whose
\* checksum bits are all set.
C2_Witness ==
  /\ cop = "roundtrip" /\ DecodeDone /\ cdec.kind = "value"
  /\ chash0 \div 16 = 15 /\ cwl = 1
  /\ centropy[1] = 255 /\ centropy[2] = 36 /\ cdec.bytes = centropy

\* C6: decoding succeeds exactly when the mnemonic has 12 words, all of them
\* in the word list, and then returns 16 bytes; with another number of words
\* it fails on the length before any lookup, and with 12 words of which one
\* is not listed it fails on the unknown word.
C6_DecodeValidation ==
  DecodeDone =>
    LET words == Split(cmnemonic)
        listed == \A k \in 1..Len(words) : Listed(cwl, words[k])
    IN /\ cdec.kind = "value" <=> (Len(words) = MnemonicWords /\ listed)
       /\ cdec.kind = "value" =>
            (Len(cdec.bytes) = EntropyLen /\ \A k \in 1..EntropyLen : cdec.bytes[k] \in Byte)
       /\ Len(words) # MnemonicWords =>
            (cdec.kind = "raised" /\ cdec.msg = "Mnemonic must have 12 words")
       /\ (Len(words) = MnemonicWords /\ ~listed) =>
            (cdec.kind = "raised" /\ cdec.msg = "not in list")

\* C6 witness: a mnemonic of 13 words, one of them unknown, was refused for
\* its length.
C6_Witness ==
  /\ cop = "decode" /\ DecodeDone /\ Len(Split(cmnemonic)) = MnemonicWords + 1
  /\ \E k \in 1..Len(Split(cmnemonic)) : ~Listed(cwl, Split(cmnemonic)[k])
  /\ cdec.kind = "raised" /\ cdec.msg = "Mnemonic must have 12 words"

\* Bit j (0 the first) of the 132 bits that 12 indices spell, 11 bits each.
BitOf(idx, j) ==
  (idx[(j \div WordBits) + 1] \div (2 ^ (WordBits - 1 - (j % WordBits)))) % 2

\* Byte k (1 the first) of the first 128 bits that 12 indices spell.
FirstBits(idx) ==
  [k \in 1..EntropyLen |->
     128 * BitOf(idx, 8 * k - 8) + 64 * BitOf(idx, 8 * k - 7)
     + 32 * BitOf(idx, 8 * k - 6) + 16 * BitOf(idx, 8 * k - 5)
     + 8 * BitOf(idx, 8 * k - 4) + 4 * BitOf(idx, 8 * k - 3)
     + 2 * BitOf(idx, 8 * k - 2) + BitOf(idx, 8 * k - 1)]

\* The seed and the four trailing bits a mnemonic to decode and encode again
\* was written from.
WrittenFrom(wl, mnemonic) ==
  CHOOSE p \in (0..MaxMSeed) \X (0..15) : mnemonic = Join(TrailedWords(wl, p[1], p[2]))

\* C13: decoding does not verify the checksum.  12 listed words decode, with
\* no ChecksumMismatch, to the first 128 bits they spell, whatever the four
\* trailing bits; a mnemonic that differs only in those four bits decodes to
\* the same bytes; and encoding the decoded bytes gives the mnemonic back
\* exactly when its four trailing bits are the checksum of those bytes.
C13_ChecksumIgnored ==
  (cop = "recode" /\ DecodeDone) =>
    LET from == WrittenFrom(cwl, cmnemonic)
        trail == from[2]
    IN /\ cdec.kind = "value"
       /\ cdec.bytes = FirstBits(TrailedIndices(from[1], trail))
       /\ cdec.bytes = FirstBits(TrailedIndices(from[1], 0))
       /\ cenc.kind \in {"none", "value"}
       /\ cenc.kind = "value" => (cenc.mnemonic = cmnemonic <=> trail = chash0 \div 16)

\* C13 witness: a mnemonic whose four trailing bits are not the checksum of
\* its bytes was decoded, and encoding the bytes gave another mnemonic.
C13_Witness ==
  /\ cop = "recode" /\ cdec.kind = "value" /\ cenc.kind = "value"
  /\ WrittenFrom(cwl, cmnemonic)[2] = 9
  /\ chash0 \div 16 = 6
  /\ cenc.mnemonic # cmnemonic
  /\ Split(cenc.mnemonic)[1] = Split(cmnemonic)[1]

(***************************************************************************)
(* Properties of main (SpecMain).                                          *)
(***************************************************************************)
\* C5: there is no partial success.  A run that ends normally passed every
\* stage, reconstructed exactly 16 bytes and printed the mnemonic and the
\* seed of them; a run in which a stage fails ends there with the exception
\* and prints nothing; nothing is printed before the end; and a defective
\* share never gets a run past its decoding.
C5_NoPartialSuccess ==
  /\ mpc = "done" =>
       /\ merr = NoError
       /\ min.file.exists
       /\ min.defect1 = "none" /\ min.defect2 = "none"
       /\ Len(mloc.share1_bytes) = EntropyLen /\ Len(mloc.share2_bytes) = EntropyLen
       /\ Len(mloc.secret_bytes) = EntropyLen
       /\ Len(Split(mloc.original_mnemonic)) = MnemonicWords
       /\ mloc.seed.kind = "hex" /\ mloc.seed.password = mloc.original_mnemonic
       /\ Len(mout) = 2
       /\ mout[1].value = mloc.original_mnemonic /\ mout[2].value = mloc.seed
  /\ mpc = "aborted" =>
       /\ merr.kind = "raised"
       /\ mout = <<>> /\ mloc.original_mnemonic = <<>> /\ mloc.seed = NoSeed
  /\ mpc \in {"load", "decode1", "decode2", "reconstruct", "encode", "seed", "print"} =>
       (merr = NoError /\ mout = <<>>)
  /\ (mpc # "idle" /\ min.defect1 # "none") => mpc \in {"load", "decode1", "aborted"}
  /\ (mpc # "idle" /\ min.defect2 # "none") =>
       mpc \in {"load", "decode1", "decode2", "aborted"}

\* C5 witnesses: a run has ended normally with a 16-byte secret, printed.
C5_Witness ==
  /\ mpc = "done" /\ Len(mloc.secret_bytes) = EntropyLen /\ Len(mout) = 2
  /\ mloc.secret_bytes = min.secret

(***************************************************************************)
(* Properties of the WSGI application (SpecApp).                           *)
(***************************************************************************)
\* c.casefold() for every character outside ASCII that str.casefold()
\* changes, as the Unicode data of Python gives it.
CasefoldPairs ==
  {<<"U+00B5", <<"U+03BC">>>>, <<"U+00C0", <<"U+00E0">>>>, <<"U+00C1", <<"U+00E1">>>>,
   <<"U+00C2", <<"U+00E2">>>>, <<"U+00C3", <<"U+00E3">>>>, <<"U+00C4", <<"U+00E4">>>>,
   <<"U+00C5", <<"U+00E5">>>>, <<"U+00C6", <<"U+00E6">>>>, <<"U+00C7", <<"U+00E7">>>>,
   <<"U+00C8", <<"U+00E8">>>>, <<"U+00C9", <<"U+00E9">>>>, <<"U+00CA", <<"U+00EA">>>>,
   <<"U+00CB", <<"U+00EB">>>>, <<"U+00CC", <<"U+00EC">>>>, <<"U+00CD", <<"U+00ED">>>>,
   <<"U+00CE", <<"U+00EE">>>>, <<"U+00CF", <<"U+00EF">>>>, <<"U+00D0", <<"U+00F0">>>>,
   <<"U+00D1", <<"U+00F1">>>>, <<"U+00D2", <<"U+00F2">>>>, <<"U+00D3", <<"U+00F3">>>>,
   <<"U+00D4", <<"U+00F4">>>>, <<"U+00D5", <<"U+00F5">>>>, <<"U+00D6", <<"U+00F6">>>>,
   <<"U+00D8", <<"U+00F8">>>>, <<"U+00D9", <<"U+00F9">>>>, <<"U+00DA", <<"U+00FA">>>>,
   <<"U+00DB", <<"U+00FB">>>>, <<"U+00DC", <<"U+00FC">>>>, <<"U+00DD", <<"U+00FD">>>>,
   <<"U+00DE", <<"U+00FE">>>>, <<"U+00DF", <<"s", "s">>>>, <<"U+0100", <<"U+0101">>>>,
   <<"U+0102", <<"U+0103">>>>, <<"U+0104", <<"U+0105">>>>, <<"U+0106", <<"U+0107">>>>,
   <<"U+0108", <<"U+0109">>>>, <<"U+010A", <<"U+010B">>>>, <<"U+010C", <<"U+010D">>>>,
   <<"U+010E", <<"U+010F">>>>, <<"U+0110", <<"U+0111">>>>, <<"U+0112", <<"U+0113">>>>,
   <<"U+0114", <<"U+0115">>>>, <<"U+0116", <<"U+0117">>>>, <<"U+0118", <<"U+0119">>>>,
   <<"U+011A", <<"U+011B">>>>, <<"U+011C", <<"U+011D">>>>, <<"U+011E", <<"U+011F">>>>,
   <<"U+0120", <<"U+0121">>>>, <<"U+0122", <<"U+0123">>>>, <<"U+0124", <<"U+0125">>>>,
   <<"U+0126", <<"U+0127">>>>, <<"U+0128", <<"U+0129">>>>, <<"U+012A", <<"U+012B">>>>,
   <<"U+012C", <<"U+012D">>>>, <<"U+012E", <<"U+012F">>>>, <<"U+0130", <<"i", "U+0307">>>>,
   <<"U+0132", <<"U+0133">>>>, <<"U+0134", <<"U+0135">>>>, <<"U+0136", <<"U+0137">>>>,
   <<"U+0139", <<"U+013A">>>>, <<"U+013B", <<"U+013C">>>>, <<"U+013D", <<"U+013E">>>>,
   <<"U+013F", <<"U+0140">>>>, <<"U+0141", <<"U+0142">>>>, <<"U+0143", <<"U+0144">>>>,
   <<"U+0145", <<"U+0146">>>>, <<"U+0147", <<"U+0148">>>>, <<"U+0149", <<"U+02BC", "n">>>>,
   <<"U+014A", <<"U+014B">>>>, <<"U+014C", <<"U+014D">>>>, <<"U+014E", <<"U+014F">>>>,
   <<"U+0150", <<"U+0151">>>>, <<"U+0152", <<"U+0153">>>>, <<"U+0154", <<"U+0155">>>>,
   <<"U+0156", <<"U+0157">>>>, <<"U+0158", <<"U+0159">>>>, <<"U+015A", <<"U+015B">>>>,
   <<"U+015C", <<"U+015D">>>>, <<"U+015E", <<"U+015F">>>>, <<"U+0160", <<"U+0161">>>>,
   <<"U+0162", <<"U+0163">>>>, <<"U+0164", <<"U+0165">>>>, <<"U+0166", <<"U+0167">>>>,
   <<"U+0168", <<"U+0169">>>>, <<"U+016A", <<"U+016B">>>>, <<"U+016C", <<"U+016D">>>>,
   <<"U+016E", <<"U+016F">>>>, <<"U+0170", <<"U+0171">>>>, <<"U+0172", <<"U+0173">>>>,
   <<"U+0174", <<"U+0175">>>>, <<"U+0176", <<"U+0177">>>>, <<"U+0178", <<"U+00FF">>>>,
   <<"U+0179", <<"U+017A">>>>, <<"U+017B", <<"U+017C">>>>, <<"U+017D", <<"U+017E">>>>,
   <<"U+017F", <<"s">>>>, <<"U+0181", <<"U+0253">>>>, <<"U+0182", <<"U+0183">>>>,
   <<"U+0184", <<"U+0185">>>>, <<"U+0186", <<"U+0254">>>>, <<"U+0187", <<"U+0188">>>>,
   <<"U+0189", <<"U+0256">>>>, <<"U+018A", <<"U+0257">>>>, <<"U+018B", <<"U+018C">>>>,
   <<"U+018E", <<"U+01DD">>>>, <<"U+018F", <<"U+0259">>>>, <<"U+0190", <<"U+025B">>>>,
   <<"U+0191", <<"U+0192">>>>, <<"U+0193", <<"U+0260">>>>, <<"U+0194", <<"U+0263">>>>,
   <<"U+0196", <<"U+0269">>>>, <<"U+0197", <<"U+0268">>>>, <<"U+0198", <<"U+0199">>>>,
   <<"U+019C", <<"U+026F">>>>, <<"U+019D", <<"U+0272">>>>, <<"U+019F", <<"U+0275">>>>,
   <<"U+01A0", <<"U+01A1">>>>, <<"U+01A2", <<"U+01A3">>>>, <<"U+01A4", <<"U+01A5">>>>,
   <<"U+01A6", <<"U+0280">>>>, <<"U+01A7", <<"U+01A8">>>>, <<"U+01A9", <<"U+0283">>>>,
   <<"U+01AC", <<"U+01AD">>>>, <<"U+01AE", <<"U+0288">>>>, <<"U+01AF", <<"U+01B0">>>>,
   <<"U+01B1", <<"U+028A">>>>, <<"U+01B2", <<"U+028B">>>>, <<"U+01B3", <<"U+01B4">>>>,
   <<"U+01B5", <<"U+01B6">>>>, <<"U+01B7", <<"U+0292">>>>, <<"U+01B8", <<"U+01B9">>>>,
   <<"U+01BC", <<"U+01BD">>>>, <<"U+01C4", <<"U+01C6">>>>, <<"U+01C5", <<"U+01C6">>>>,
   <<"U+01C7", <<"U+01C9">>>>, <<"U+01C8", <<"U+01C9">>>>, <<"U+01CA", <<"U+01CC">>>>,
   <<"U+01CB", <<"U+01CC">>>>, <<"U+01CD", <<"U+01CE">>>>, <<"U+01CF", <<"U+01D0">>>>,
   <<"U+01D1", <<"U+01D2">>>>, <<"U+01D3", <<"U+01D4">>>>, <<"U+01D5", <<"U+01D6">>>>,
   <<"U+01D7", <<"U+01D8">>>>, <<"U+01D9", <<"U+01DA">>>>, <<"U+01DB", <<"U+01DC">>>>,
   <<"U+01DE", <<"U+01DF">>>>, <<"U+01E0", <<"U+01E1">>>>, <<"U+01E2", <<"U+01E3">>>>,
   <<"U+01E4", <<"U+01E5">>>>, <<"U+01E6", <<"U+01E7">>>>, <<"U+01E8", <<"U+01E9">>>>,
   <<"U+01EA", <<"U+01EB">>>>, <<"U+01EC", <<"U+01ED">>>>, <<"U+01EE", <<"U+01EF">>>>,
   <<"U+01F0", <<"j", "U+030C">>>>, <<"U+01F1", <<"U+01F3">>>>, <<"U+01F2", <<"U+01F3">>>>,
   <<"U+01F4", <<"U+01F5">>>>, <<"U+01F6", <<"U+0195">>>>, <<"U+01F7", <<"U+01BF">>>>,
   <<"U+01F8", <<"U+01F9">>>>, <<"U+01FA", <<"U+01FB">>>>, <<"U+01FC", <<"U+01FD">>>>,
   <<"U+01FE", <<"U+01FF">>>>, <<"U+0200", <<"U+0201">>>>, <<"U+0202", <<"U+0203">>>>,
   <<"U+0204", <<"U+0205">>>>, <<"U+0206", <<"U+0207">>>>, <<"U+0208", <<"U+0209">>>>,
   <<"U+020A", <<"U+020B">>>>, <<"U+020C", <<"U+020D">>>>, <<"U+020E", <<"U+020F">>>>,
   <<"U+0210", <<"U+0211">>>>, <<"U+0212", <<"U+0213">>>>, <<"U+0214", <<"U+0215">>>>,
   <<"U+0216", <<"U+0217">>>>, <<"U+0218", <<"U+0219">>>>, <<"U+021A", <<"U+021B">>>>,
   <<"U+021C", <<"U+021D">>>>, <<"U+021E", <<"U+021F">>>>, <<"U+0220", <<"U+019E">>>>,
   <<"U+0222", <<"U+0223">>>>, <<"U+0224", <<"U+0225">>>>, <<"U+0226", <<"U+0227">>>>,
   <<"U+0228", <<"U+0229">>>>, <<"U+022A", <<"U+022B">>>>, <<"U+022C", <<"U+022D">>>>,
   <<"U+022E", <<"U+022F">>>>, <<"U+0230", <<"U+0231">>>>, <<"U+0232", <<"U+0233">>>>,
   <<"U+023A", <<"U+2C65">>>>, <<"U+023B", <<"U+023C">>>>, <<"U+023D", <<"U+019A">>>>,
   <<"U+023E", <<"U+2C66">>>>, <<"U+0241", <<"U+0242">>>>, <<"U+0243", <<"U+0180">>>>,
   <<"U+0244", <<"U+0289">>>>, <<"U+0245", <<"U+028C">>>>, <<"U+0246", <<"U+0247">>>>,
   <<"U+0248", <<"U+0249">>>>, <<"U+024A", <<"U+024B">>>>, <<"U+024C", <<"U+024D">>>>,
   <<"U+024E", <<"U+024F">>>>, <<"U+0345", <<"U+03B9">>>>, <<"U+0370", <<"U+0371">>>>,
   <<"U+0372", <<"U+0373">>>>, <<"U+0376", <<"U+0377">>>>, <<"U+037F", <<"U+03F3">>>>,
   <<"U+0386", <<"U+03AC">>>>, <<"U+0388", <<"U+03AD">>>>, <<"U+0389", <<"U+03AE">>>>,
   <<"U+038A", <<"U+03AF">>>>, <<"U+038C", <<"U+03CC">>>>, <<"U+038E", <<"U+03CD">>>>,
   <<"U+038F", <<"U+03CE">>>>, <<"U+0390", <<"U+03B9", "U+0308", "U+0301">>>>, <<"U+0391", <<"U+03B1">>>>,
   <<"U+0392", <<"U+03B2">>>>, <<"U+0393", <<"U+03B3">>>>, <<"U+0394", <<"U+03B4">>>>,
   <<"U+0395", <<"U+03B5">>>>, <<"U+0396", <<"U+03B6">>>>, <<"U+0397", <<"U+03B7">>>>,
   <<"U+0398", <<"U+03B8">>>>, <<"U+0399", <<"U+03B9">>>>, <<"U+039A", <<"U+03BA">>>>,
   <<"U+039B", <<"U+03BB">>>>, <<"U+039C", <<"U+03BC">>>>, <<"U+039D", <<"U+03BD">>>>,
   <<"U+039E", <<"U+03BE">>>>, <<"U+039F", <<"U+03BF">>>>, <<"U+03A0", <<"U+03C0">>>>,
   <<"U+03A1", <<"U+03C1">>>>, <<"U+03A3", <<"U+03C3">>>>, <<"U+03A4", <<"U+03C4">>>>,
   <<"U+03A5", <<"U+03C5">>>>, <<"U+03A6", <<"U+03C6">>>>, <<"U+03A7", <<"U+03C7">>>>,
   <<"U+03A8", <<"U+03C8">>>>, <<"U+03A9", <<"U+03C9">>>>, <<"U+03AA", <<"U+03CA">>>>,
   <<"U+03AB", <<"U+03CB">>>>, <<"U+03B0", <<"U+03C5", "U+0308", "U+0301">>>>, <<"U+03C2", <<"U+03C3">>>>,
   <<"U+03CF", <<"U+03D7">>>>, <<"U+03D0", <<"U+03B2">>>>, <<"U+03D1", <<"U+03B8">>>>,
   <<"U+03D5", <<"U+03C6">>>>, <<"U+03D6", <<"U+03C0">>>>, <<"U+03D8", <<"U+03D9">>>>,
   <<"U+03DA", <<"U+03DB">>>>, <<"U+03DC", <<"U+03DD">>>>, <<"U+03DE", <<"U+03DF">>>>,
   <<"U+03E0", <<"U+03E1">>>>, <<"U+03E2", <<"U+03E3">>>>, <<"U+03E4", <<"U+03E5">>>>,
   <<"U+03E6", <<"U+03E7">>>>, <<"U+03E8", <<"U+03E9">>>>, <<"U+03EA", <<"U+03EB">>>>,
   <<"U+03EC", <<"U+03ED">>>>, <<"U+03EE", <<"U+03EF">>>>, <<"U+03F0", <<"U+03BA">>>>,
   <<"U+03F1", <<"U+03C1">>>>, <<"U+03F4", <<"U+03B8">>>>, <<"U+03F5", <<"U+03B5">>>>,
   <<"U+03F7", <<"U+03F8">>>>, <<"U+03F9", <<"U+03F2">>>>, <<"U+03FA", <<"U+03FB">>>>,
   <<"U+03FD", <<"U+037B">>>>, <<"U+03FE", <<"U+037C">>>>, <<"U+03FF", <<"U+037D">>>>,
   <<"U+0400", <<"U+0450">>>>, <<"U+0401", <<"U+0451">>>>, <<"U+0402", <<"U+0452">>>>,
   <<"U+0403", <<"U+0453">>>>, <<"U+0404", <<"U+0454">>>>, <<"U+0405", <<"U+0455">>>>,
   <<"U+0406", <<"U+0456">>>>, <<"U+0407", <<"U+0457">>>>, <<"U+0408", <<"U+0458">>>>,
   <<"U+0409", <<"U+0459">>>>, <<"U+040A", <<"U+045A">>>>, <<"U+040B", <<"U+045B">>>>,
   <<"U+040C", <<"U+045C">>>>, <<"U+040D", <<"U+045D">>>>, <<"U+040E", <<"U+045E">>>>,
   <<"U+040F", <<"U+045F">>>>, <<"U+0410", <<"U+0430">>>>, <<"U+0411", <<"U+0431">>>>,
   <<"U+0412", <<"U+0432">>>>, <<"U+0413", <<"U+0433">>>>, <<"U+0414", <<"U+0434">>>>,
   <<"U+0415", <<"U+0435">>>>, <<"U+0416", <<"U+0436">>>>, <<"U+0417", <<"U+0437">>>>,
   <<"U+0418", <<"U+0438">>>>, <<"U+0419", <<"U+0439">>>>, <<"U+041A", <<"U+043A">>>>,
   <<"U+041B", <<"U+043B">>>>, <<"U+041C", <<"U+043C">>>>, <<"U+041D", <<"U+043D">>>>,
   <<"U+041E", <<"U+043E">>>>, <<"U+041F", <<"U+043F">>>>, <<"U+0420", <<"U+0440">>>>,
   <<"U+0421", <<"U+0441">>>>, <<"U+0422", <<"U+0442">>>>, <<"U+0423", <<"U+0443">>>>,
   <<"U+0424", <<"U+0444">>>>, <<"U+0425", <<"U+0445">>>>, <<"U+0426", <<"U+0446">>>>,
   <<"U+0427", <<"U+0447">>>>, <<"U+0428", <<"U+0448">>>>, <<"U+0429", <<"U+0449">>>>,
   <<"U+042A", <<"U+044A">>>>, <<"U+042B", <<"U+044B">>>>, <<"U+042C", <<"U+044C">>>>,
   <<"U+042D", <<"U+044D">>>>, <<"U+042E", <<"U+044E">>>>, <<"U+042F", <<"U+044F">>>>,
   <<"U+0460", <<"U+0461">>>>, <<"U+0462", <<"U+0463">>>>, <<"U+0464", <<"U+0465">>>>,
   <<"U+0466", <<"U+0467">>>>, <<"U+0468", <<"U+0469">>>>, <<"U+046A", <<"U+046B">>>>,
   <<"U+046C", <<"U+046D">>>>, <<"U+046E", <<"U+046F">>>>, <<"U+0470", <<"U+0471">>>>,
   <<"U+0472", <<"U+0473">>>>, <<"U+0474", <<"U+0475">>>>, <<"U+0476", <<"U+0477">>>>,
   <<"U+0478", <<"U+0479">>>>, <<"U+047A", <<"U+047B">>>>, <<"U+047C", <<"U+047D">>>>,
   <<"U+047E", <<"U+047F">>>>, <<"U+0480", <<"U+0481">>>>, <<"U+048A", <<"U+048B">>>>,
   <<"U+048C", <<"U+048D">>>>, <<"U+048E", <<"U+048F">>>>, <<"U+0490", <<"U+0491">>>>,
   <<"U+0492", <<"U+0493">>>>, <<"U+0494", <<"U+0495">>>>, <<"U+0496", <<"U+0497">>>>,
   <<"U+0498", <<"U+0499">>>>, <<"U+049A", <<"U+049B">>>>, <<"U+049C", <<"U+049D">>>>,
   <<"U+049E", <<"U+049F">>>>, <<"U+04A0", <<"U+04A1">>>>, <<"U+04A2", <<"U+04A3">>>>,
   <<"U+04A4", <<"U+04A5">>>>, <<"U+04A6", <<"U+04A7">>>>, <<"U+04A8", <<"U+04A9">>>>,
   <<"U+04AA", <<"U+04AB">>>>, <<"U+04AC", <<"U+04AD">>>>, <<"U+04AE", <<"U+04AF">>>>,
   <<"U+04B0", <<"U+04B1">>>>, <<"U+04B2", <<"U+04B3">>>>, <<"U+04B4", <<"U+04B5">>>>,
   <<"U+04B6", <<"U+04B7">>>>, <<"U+04B8", <<"U+04B9">>>>, <<"U+04BA", <<"U+04BB">>>>,
   <<"U+04BC", <<"U+04BD">>>>, <<"U+04BE", <<"U+04BF">>>>, <<"U+04C0", <<"U+04CF">>>>,
   <<"U+04C1", <<"U+04C2">>>>, <<"U+04C3", <<"U+04C4">>>>, <<"U+04C5", <<"U+04C6">>>>,
   <<"U+04C7", <<"U+04C8">>>>, <<"U+04C9", <<"U+04CA">>>>, <<"U+04CB", <<"U+04CC">>>>,
   <<"U+04CD", <<"U+04CE">>>>, <<"U+04D0", <<"U+04D1">>>>, <<"U+04D2", <<"U+04D3">>>>,
   <<"U+04D4", <<"U+04D5">>>>, <<"U+04D6", <<"U+04D7">>>>, <<"U+04D8", <<"U+04D9">>>>,
   <<"U+04DA", <<"U+04DB">>>>, <<"U+04DC", <<"U+04DD">>>>, <<"U+04DE", <<"U+04DF">>>>,
   <<"U+04E0", <<"U+04E1">>>>, <<"U+04E2", <<"U+04E3">>>>, <<"U+04E4", <<"U+04E5">>>>,
   <<"U+04E6", <<"U+04E7">>>>, <<"U+04E8", <<"U+04E9">>>>, <<"U+04EA", <<"U+04EB">>>>,
   <<"U+04EC", <<"U+04ED">>>>, <<"U+04EE", <<"U+04EF">>>>, <<"U+04F0", <<"U+04F1">>>>,
   <<"U+04F2", <<"U+04F3">>>>, <<"U+04F4", <<"U+04F5">>>>, <<"U+04F6", <<"U+04F7">>>>,
   <<"U+04F8", <<"U+04F9">>>>, <<"U+04FA", <<"U+04FB">>>>, <<"U+04FC", <<"U+04FD">>>>,
   <<"U+04FE", <<"U+04FF">>>>, <<"U+0500", <<"U+0501">>>>, <<"U+0502", <<"U+0503">>>>,
   <<"U+0504", <<"U+0505">>>>, <<"U+0506", <<"U+0507">>>>, <<"U+0508", <<"U+0509">>>>,
   <<"U+050A", <<"U+050B">>>>, <<"U+050C", <<"U+050D">>>>, <<"U+050E", <<"U+050F">>>>,
   <<"U+0510", <<"U+0511">>>>, <<"U+0512", <<"U+0513">>>>, <<"U+0514", <<"U+0515">>>>,
   <<"U+0516", <<"U+0517">>>>, <<"U+0518", <<"U+0519">>>>, <<"U+051A", <<"U+051B">>>>,
   <<"U+051C", <<"U+051D">>>>, <<"U+051E", <<"U+051F">>>>, <<"U+0520", <<"U+0521">>>>,
   <<"U+0522", <<"U+0523">>>>, <<"U+0524", <<"U+0525">>>>, <<"U+0526", <<"U+0527">>>>,
   <<"U+0528", <<"U+0529">>>>, <<"U+052A", <<"U+052B">>>>, <<"U+052C", <<"U+052D">>>>,
   <<"U+052E", <<"U+052F">>>>, <<"U+0531", <<"U+0561">>>>, <<"U+0532", <<"U+0562">>>>,
   <<"U+0533", <<"U+0563">>>>, <<"U+0534", <<"U+0564">>>>, <<"U+0535", <<"U+0565">>>>,
   <<"U+0536", <<"U+0566">>>>, <<"U+0537", <<"U+0567">>>>, <<"U+0538", <<"U+0568">>>>,
   <<"U+0539", <<"U+0569">>>>, <<"U+053A", <<"U+056A">>>>, <<"U+053B", <<"U+056B">>>>,
   <<"U+053C", <<"U+056C">>>>, <<"U+053D", <<"U+056D">>>>, <<"U+053E", <<"U+056E">>>>,
   <<"U+053F", <<"U+056F">>>>, <<"U+0540", <<"U+0570">>>>, <<"U+0541", <<"U+0571">>>>,
   <<"U+0542", <<"U+0572">>>>, <<"U+0543", <<"U+0573">>>>, <<"U+0544", <<"U+0574">>>>,
   <<"U+0545", <<"U+0575">>>>, <<"U+0546", <<"U+0576">>>>, <<"U+0547", <<"U+0577">>>>,
   <<"U+0548", <<"U+0578">>>>, <<"U+0549", <<"U+0579">>>>, <<"U+054A", <<"U+057A">>>>,
   <<"U+054B", <<"U+057B">>>>, <<"U+054C", <<"U+057C">>>>, <<"U+054D", <<"U+057D">>>>,
   <<"U+054E", <<"U+057E">>>>, <<"U+054F", <<"U+057F">>>>, <<"U+0550", <<"U+0580">>>>,
   <<"U+0551", <<"U+0581">>>>, <<"U+0552", <<"U+0582">>>>, <<"U+0553", <<"U+0583">>>>,
   <<"U+0554", <<"U+0584">>>>, <<"U+0555", <<"U+0585">>>>, <<"U+0556", <<"U+0586">>>>,
   <<"U+0587", <<"U+0565", "U+0582">>>>, <<"U+10A0", <<"U+2D00">>>>, <<"U+10A1", <<"U+2D01">>>>,
   <<"U+10A2", <<"U+2D02">>>>, <<"U+10A3", <<"U+2D03">>>>, <<"U+10A4", <<"U+2D04">>>>,
   <<"U+10A5", <<"U+2D05">>>>, <<"U+10A6", <<"U+2D06">>>>, <<"U+10A7", <<"U+2D07">>>>,
   <<"U+10A8", <<"U+2D08">>>>, <<"U+10A9", <<"U+2D09">>>>, <<"U+10AA", <<"U+2D0A">>>>,
   <<"U+10AB", <<"U+2D0B">>>>, <<"U+10AC", <<"U+2D0C">>>>, <<"U+10AD", <<"U+2D0D">>>>,
   <<"U+10AE", <<"U+2D0E">>>>, <<"U+10AF", <<"U+2D0F">>>>, <<"U+10B0", <<"U+2D10">>>>,
   <<"U+10B1", <<"U+2D11">>>>, <<"U+10B2", <<"U+2D12">>>>, <<"U+10B3", <<"U+2D13">>>>,
   <<"U+10B4", <<"U+2D14">>>>, <<"U+10B5", <<"U+2D15">>>>, <<"U+10B6", <<"U+2D16">>>>,
   <<"U+10B7", <<"U+2D17">>>>, <<"U+10B8", <<"U+2D18">>>>, <<"U+10B9", <<"U+2D19">>>>,
   <<"U+10BA", <<"U+2D1A">>>>, <<"U+10BB", <<"U+2D1B">>>>, <<"U+10BC", <<"U+2D1C">>>>,
   <<"U+10BD", <<"U+2D1D">>>>, <<"U+10BE", <<"U+2D1E">>>>, <<"U+10BF", <<"U+2D1F">>>>,
   <<"U+10C0", <<"U+2D20">>>>, <<"U+10C1", <<"U+2D21">>>>, <<"U+10C2", <<"U+2D22">>>>,
   <<"U+10C3", <<"U+2D23">>>>, <<"U+10C4", <<"U+2D24">>>>, <<"U+10C5", <<"U+2D25">>>>,
   <<"U+10C7", <<"U+2D27">>>>, <<"U+10CD", <<"U+2D2D">>>>, <<"U+13F8", <<"U+13F0">>>>,
   <<"U+13F9", <<"U+13F1">>>>, <<"U+13FA", <<"U+13F2">>>>, <<"U+13FB", <<"U+13F3">>>>,
   <<"U+13FC", <<"U+13F4">>>>, <<"U+13FD", <<"U+13F5">>>>, <<"U+1C80", <<"U+0432">>>>,
   <<"U+1C81", <<"U+0434">>>>, <<"U+1C82", <<"U+043E">>>>, <<"U+1C83", <<"U+0441">>>>,
   <<"U+1C84", <<"U+0442">>>>, <<"U+1C85", <<"U+0442">>>>, <<"U+1C86", <<"U+044A">>>>,
   <<"U+1C87", <<"U+0463">>>>, <<"U+1C88", <<"U+A64B">>>>, <<"U+1C90", <<"U+10D0">>>>,
   <<"U+1C91", <<"U+10D1">>>>, <<"U+1C92", <<"U+10D2">>>>, <<"U+1C93", <<"U+10D3">>>>,
   <<"U+1C94", <<"U+10D4">>>>, <<"U+1C95", <<"U+10D5">>>>, <<"U+1C96", <<"U+10D6">>>>,
   <<"U+1C97", <<"U+10D7">>>>, <<"U+1C98", <<"U+10D8">>>>, <<"U+1C99", <<"U+10D9">>>>,
   <<"U+1C9A", <<"U+10DA">>>>, <<"U+1C9B", <<"U+10DB">>>>, <<"U+1C9C", <<"U+10DC">>>>,
   <<"U+1C9D", <<"U+10DD">>>>, <<"U+1C9E", <<"U+10DE">>>>, <<"U+1C9F", <<"U+10DF">>>>,
   <<"U+1CA0", <<"U+10E0">>>>, <<"U+1CA1", <<"U+10E1">>>>, <<"U+1CA2", <<"U+10E2">>>>,
   <<"U+1CA3", <<"U+10E3">>>>, <<"U+1CA4", <<"U+10E4">>>>, <<"U+1CA5", <<"U+10E5">>>>,
   <<"U+1CA6", <<"U+10E6">>>>, <<"U+1CA7", <<"U+10E7">>>>, <<"U+1CA8", <<"U+10E8">>>>,
   <<"U+1CA9", <<"U+10E9">>>>, <<"U+1CAA", <<"U+10EA">>>>, <<"U+1CAB", <<"U+10EB">>>>,
   <<"U+1CAC", <<"U+10EC">>>>, <<"U+1CAD", <<"U+10ED">>>>, <<"U+1CAE", <<"U+10EE">>>>,
   <<"U+1CAF", <<"U+10EF">>>>, <<"U+1CB0", <<"U+10F0">>>>, <<"U+1CB1", <<"U+10F1">>>>,
   <<"U+1CB2", <<"U+10F2">>>>, <<"U+1CB3", <<"U+10F3">>>>, <<"U+1CB4", <<"U+10F4">>>>,
   <<"U+1CB5", <<"U+10F5">>>>, <<"U+1CB6", <<"U+10F6">>>>, <<"U+1CB7", <<"U+10F7">>>>,
   <<"U+1CB8", <<"U+10F8">>>>, <<"U+1CB9", <<"U+10F9">>>>, <<"U+1CBA", <<"U+10FA">>>>,
   <<"U+1CBD", <<"U+10FD">>>>, <<"U+1CBE", <<"U+10FE">>>>, <<"U+1CBF", <<"U+10FF">>>>,
   <<"U+1E00", <<"U+1E01">>>>, <<"U+1E02", <<"U+1E03">>>>, <<"U+1E04", <<"U+1E05">>>>,
   <<"U+1E06", <<"U+1E07">>>>, <<"U+1E08", <<"U+1E09">>>>, <<"U+1E0A", <<"U+1E0B">>>>,
   <<"U+1E0C", <<"U+1E0D">>>>, <<"U+1E0E", <<"U+1E0F">>>>, <<"U+1E10", <<"U+1E11">>>>,
   <<"U+1E12", <<"U+1E13">>>>, <<"U+1E14", <<"U+1E15">>>>, <<"U+1E16", <<"U+1E17">>>>,
   <<"U+1E18", <<"U+1E19">>>>, <<"U+1E1A", <<"U+1E1B">>>>, <<"U+1E1C", <<"U+1E1D">>>>,
   <<"U+1E1E", <<"U+1E1F">>>>, <<"U+1E20", <<"U+1E21">>>>, <<"U+1E22", <<"U+1E23">>>>,
   <<"U+1E24", <<"U+1E25">>>>, <<"U+1E26", <<"U+1E27">>>>, <<"U+1E28", <<"U+1E29">>>>,
   <<"U+1E2A", <<"U+1E2B">>>>, <<"U+1E2C", <<"U+1E2D">>>>, <<"U+1E2E", <<"U+1E2F">>>>,
   <<"U+1E30", <<"U+1E31">>>>, <<"U+1E32", <<"U+1E33">>>>, <<"U+1E34", <<"U+1E35">>>>,
   <<"U+1E36", <<"U+1E37">>>>, <<"U+1E38", <<"U+1E39">>>>, <<"U+1E3A", <<"U+1E3B">>>>,
   <<"U+1E3C", <<"U+1E3D">>>>, <<"U+1E3E", <<"U+1E3F">>>>, <<"U+1E40", <<"U+1E41">>>>,
   <<"U+1E42", <<"U+1E43">>>>, <<"U+1E44", <<"U+1E45">>>>, <<"U+1E46", <<"U+1E47">>>>,
   <<"U+1E48", <<"U+1E49">>>>, <<"U+1E4A", <<"U+1E4B">>>>, <<"U+1E4C", <<"U+1E4D">>>>,
   <<"U+1E4E", <<"U+1E4F">>>>, <<"U+1E50", <<"U+1E51">>>>, <<"U+1E52", <<"U+1E53">>>>,
   <<"U+1E54", <<"U+1E55">>>>, <<"U+1E56", <<"U+1E57">>>>, <<"U+1E58", <<"U+1E59">>>>,
   <<"U+1E5A", <<"U+1E5B">>>>, <<"U+1E5C", <<"U+1E5D">>>>, <<"U+1E5E", <<"U+1E5F">>>>,
   <<"U+1E60", <<"U+1E61">>>>, <<"U+1E62", <<"U+1E63">>>>, <<"U+1E64", <<"U+1E65">>>>,
   <<"U+1E66", <<"U+1E67">>>>, <<"U+1E68", <<"U+1E69">>>>, <<"U+1E6A", <<"U+1E6B">>>>,
   <<"U+1E6C", <<"U+1E6D">>>>, <<"U+1E6E", <<"U+1E6F">>>>, <<"U+1E70", <<"U+1E71">>>>,
   <<"U+1E72", <<"U+1E73">>>>, <<"U+1E74", <<"U+1E75">>>>, <<"U+1E76", <<"U+1E77">>>>,
   <<"U+1E78", <<"U+1E79">>>>, <<"U+1E7A", <<"U+1E7B">>>>, <<"U+1E7C", <<"U+1E7D">>>>,
   <<"U+1E7E", <<"U+1E7F">>>>, <<"U+1E80", <<"U+1E81">>>>, <<"U+1E82", <<"U+1E83">>>>,
   <<"U+1E84", <<"U+1E85">>>>, <<"U+1E86", <<"U+1E87">>>>, <<"U+1E88", <<"U+1E89">>>>,
   <<"U+1E8A", <<"U+1E8B">>>>, <<"U+1E8C", <<"U+1E8D">>>>, <<"U+1E8E", <<"U+1E8F">>>>,
   <<"U+1E90", <<"U+1E91">>>>, <<"U+1E92", <<"U+1E93">>>>, <<"U+1E94", <<"U+1E95">>>>,
   <<"U+1E96", <<"h", "U+0331">>>>, <<"U+1E97", <<"t", "U+0308">>>>, <<"U+1E98", <<"w", "U+030A">>>>,
   <<"U+1E99", <<"y", "U+030A">>>>, <<"U+1E9A", <<"a", "U+02BE">>>>, <<"U+1E9B", <<"U+1E61">>>>,
   <<"U+1E9E", <<"s", "s">>>>, <<"U+1EA0", <<"U+1EA1">>>>, <<"U+1EA2", <<"U+1EA3">>>>,
   <<"U+1EA4", <<"U+1EA5">>>>, <<"U+1EA6", <<"U+1EA7">>>>, <<"U+1EA8", <<"U+1EA9">>>>,
   <<"U+1EAA", <<"U+1EAB">>>>, <<"U+1EAC", <<"U+1EAD">>>>, <<"U+1EAE", <<"U+1EAF">>>>,
   <<"U+1EB0", <<"U+1EB1">>>>, <<"U+1EB2", <<"U+1EB3">>>>, <<"U+1EB4", <<"U+1EB5">>>>,
   <<"U+1EB6", <<"U+1EB7">>>>, <<"U+1EB8", <<"U+1EB9">>>>, <<"U+1EBA", <<"U+1EBB">>>>,
   <<"U+1EBC", <<"U+1EBD">>>>, <<"U+1EBE", <<"U+1EBF">>>>, <<"U+1EC0", <<"U+1EC1">>>>,
   <<"U+1EC2", <<"U+1EC3">>>>, <<"U+1EC4", <<"U+1EC5">>>>, <<"U+1EC6", <<"U+1EC7">>>>,
   <<"U+1EC8", <<"U+1EC9">>>>, <<"U+1ECA", <<"U+1ECB">>>>, <<"U+1ECC", <<"U+1ECD">>>>,
   <<"U+1ECE", <<"U+1ECF">>>>, <<"U+1ED0", <<"U+1ED1">>>>, <<"U+1ED2", <<"U+1ED3">>>>,
   <<"U+1ED4", <<"U+1ED5">>>>, <<"U+1ED6", <<"U+1ED7">>>>, <<"U+1ED8", <<"U+1ED9">>>>,
   <<"U+1EDA", <<"U+1EDB">>>>, <<"U+1EDC", <<"U+1EDD">>>>, <<"U+1EDE", <<"U+1EDF">>>>,
   <<"U+1EE0", <<"U+1EE1">>>>, <<"U+1EE2", <<"U+1EE3">>>>, <<"U+1EE4", <<"U+1EE5">>>>,
   <<"U+1EE6", <<"U+1EE7">>>>, <<"U+1EE8", <<"U+1EE9">>>>, <<"U+1EEA", <<"U+1EEB">>>>,
   <<"U+1EEC", <<"U+1EED">>>>, <<"U+1EEE", <<"U+1EEF">>>>, <<"U+1EF0", <<"U+1EF1">>>>,
   <<"U+1EF2", <<"U+1EF3">>>>, <<"U+1EF4", <<"U+1EF5">>>>, <<"U+1EF6", <<"U+1EF7">>>>,
   <<"U+1EF8", <<"U+1EF9">>>>, <<"U+1EFA", <<"U+1EFB">>>>, <<"U+1EFC", <<"U+1EFD">>>>,
   <<"U+1EFE", <<"U+1EFF">>>>, <<"U+1F08", <<"U+1F00">>>>, <<"U+1F09", <<"U+1F01">>>>,
   <<"U+1F0A", <<"U+1F02">>>>, <<"U+1F0B", <<"U+1F03">>>>, <<"U+1F0C", <<"U+1F04">>>>,
   <<"U+1F0D", <<"U+1F05">>>>, <<"U+1F0E", <<"U+1F06">>>>, <<"U+1F0F", <<"U+1F07">>>>,
   <<"U+1F18", <<"U+1F10">>>>, <<"U+1F19", <<"U+1F11">>>>, <<"U+1F1A", <<"U+1F12">>>>,
   <<"U+1F1B", <<"U+1F13">>>>, <<"U+1F1C", <<"U+1F14">>>>, <<"U+1F1D", <<"U+1F15">>>>,
   <<"U+1F28", <<"U+1F20">>>>, <<"U+1F29", <<"U+1F21">>>>, <<"U+1F2A", <<"U+1F22">>>>,
   <<"U+1F2B", <<"U+1F23">>>>, <<"U+1F2C", <<"U+1F24">>>>, <<"U+1F2D", <<"U+1F25">>>>,
   <<"U+1F2E", <<"U+1F26">>>>, <<"U+1F2F", <<"U+1F27">>>>, <<"U+1F38", <<"U+1F30">>>>,
   <<"U+1F39", <<"U+1F31">>>>, <<"U+1F3A", <<"U+1F32">>>>, <<"U+1F3B", <<"U+1F33">>>>,
   <<"U+1F3C", <<"U+1F34">>>>, <<"U+1F3D", <<"U+1F35">>>>, <<"U+1F3E", <<"U+1F36">>>>,
   <<"U+1F3F", <<"U+1F37">>>>, <<"U+1F48", <<"U+1F40">>>>, <<"U+1F49", <<"U+1F41">>>>,
   <<"U+1F4A", <<"U+1F42">>>>, <<"U+1F4B", <<"U+1F43">>>>, <<"U+1F4C", <<"U+1F44">>>>,
   <<"U+1F4D", <<"U+1F45">>>>, <<"U+1F50", <<"U+03C5", "U+0313">>>>, <<"U+1F52", <<"U+03C5", "U+0313", "U+0300">>>>,
   <<"U+1F54", <<"U+03C5", "U+0313", "U+0301">>>>, <<"U+1F56", <<"U+03C5", "U+0313", "U+0342">>>>, <<"U+1F59", <<"U+1F51">>>>,
   <<"U+1F5B", <<"U+1F53">>>>, <<"U+1F5D", <<"U+1F55">>>>, <<"U+1F5F", <<"U+1F57">>>>,
   <<"U+1F68", <<"U+1F60">>>>, <<"U+1F69", <<"U+1F61">>>>, <<"U+1F6A", <<"U+1F62">>>>,
   <<"U+1F6B", <<"U+1F63">>>>, <<"U+1F6C", <<"U+1F64">>>>, <<"U+1F6D", <<"U+1F65">>>>,
   <<"U+1F6E", <<"U+1F66">>>>, <<"U+1F6F", <<"U+1F67">>>>, <<"U+1F80", <<"U+1F00", "U+03B9">>>>,
   <<"U+1F81", <<"U+1F01", "U+03B9">>>>, <<"U+1F82", <<"U+1F02", "U+03B9">>>>, <<"U+1F83", <<"U+1F03", "U+03B9">>>>,
   <<"U+1F84", <<"U+1F04", "U+03B9">>>>, <<"U+1F85", <<"U+1F05", "U+03B9">>>>, <<"U+1F86", <<"U+1F06", "U+03B9">>>>,
   <<"U+1F87", <<"U+1F07", "U+03B9">>>>, <<"U+1F88", <<"U+1F00", "U+03B9">>>>, <<"U+1F89", <<"U+1F01", "U+03B9">>>>,
   <<"U+1F8A", <<"U+1F02", "U+03B9">>>>, <<"U+1F8B", <<"U+1F03", "U+03B9">>>>, <<"U+1F8C", <<"U+1F04", "U+03B9">>>>,
   <<"U+1F8D", <<"U+1F05", "U+03B9">>>>, <<"U+1F8E", <<"U+1F06", "U+03B9">>>>, <<"U+1F8F", <<"U+1F07", "U+03B9">>>>,
   <<"U+1F90", <<"U+1F20", "U+03B9">>>>, <<"U+1F91", <<"U+1F21", "U+03B9">>>>, <<"U+1F92", <<"U+1F22", "U+03B9">>>>,
   <<"U+1F93", <<"U+1F23", "U+03B9">>>>, <<"U+1F94", <<"U+1F24", "U+03B9">>>>, <<"U+1F95", <<"U+1F25", "U+03B9">>>>,
   <<"U+1F96", <<"U+1F26", "U+03B9">>>>, <<"U+1F97", <<"U+1F27", "U+03B9">>>>, <<"U+1F98", <<"U+1F20", "U+03B9">>>>,
   <<"U+1F99", <<"U+1F21", "U+03B9">>>>, <<"U+1F9A", <<"U+1F22", "U+03B9">>>>, <<"U+1F9B", <<"U+1F23", "U+03B9">>>>,
   <<"U+1F9C", <<"U+1F24", "U+03B9">>>>, <<"U+1F9D", <<"U+1F25", "U+03B9">>>>, <<"U+1F9E", <<"U+1F26", "U+03B9">>>>,
   <<"U+1F9F", <<"U+1F27", "U+03B9">>>>, <<"U+1FA0", <<"U+1F60", "U+03B9">>>>, <<"U+1FA1", <<"U+1F61", "U+03B9">>>>,
   <<"U+1FA2", <<"U+1F62", "U+03B9">>>>, <<"U+1FA3", <<"U+1F63", "U+03B9">>>>, <<"U+1FA4", <<"U+1F64", "U+03B9">>>>,
   <<"U+1FA5", <<"U+1F65", "U+03B9">>>>, <<"U+1FA6", <<"U+1F66", "U+03B9">>>>, <<"U+1FA7", <<"U+1F67", "U+03B9">>>>,
   <<"U+1FA8", <<"U+1F60", "U+03B9">>>>, <<"U+1FA9", <<"U+1F61", "U+03B9">>>>, <<"U+1FAA", <<"U+1F62", "U+03B9">>>>,
   <<"U+1FAB", <<"U+1F63", "U+03B9">>>>, <<"U+1FAC", <<"U+1F64", "U+03B9">>>>, <<"U+1FAD", <<"U+1F65", "U+03B9">>>>,
   <<"U+1FAE", <<"U+1F66", "U+03B9">>>>, <<"U+1FAF", <<"U+1F67", "U+03B9">>>>, <<"U+1FB2", <<"U+1F70", "U+03B9">>>>,
   <<"U+1FB3", <<"U+03B1", "U+03B9">>>>, <<"U+1FB4", <<"U+03AC", "U+03B9">>>>, <<"U+1FB6", <<"U+03B1", "U+0342">>>>,
   <<"U+1FB7", <<"U+03B1", "U+0342", "U+03B9">>>>, <<"U+1FB8", <<"U+1FB0">>>>, <<"U+1FB9", <<"U+1FB1">>>>,
   <<"U+1FBA", <<"U+1F70">>>>, <<"U+1FBB", <<"U+1F71">>>>, <<"U+1FBC", <<"U+03B1", "U+03B9">>>>,
   <<"U+1FBE", <<"U+03B9">>>>, <<"U+1FC2", <<"U+1F74", "U+03B9">>>>, <<"U+1FC3", <<"U+03B7", "U+03B9">>>>,
   <<"U+1FC4", <<"U+03AE", "U+03B9">>>>, <<"U+1FC6", <<"U+03B7", "U+0342">>>>, <<"U+1FC7", <<"U+03B7", "U+0342", "U+03B9">>>>,
   <<"U+1FC8", <<"U+1F72">>>>, <<"U+1FC9", <<"U+1F73">>>>, <<"U+1FCA", <<"U+1F74">>>>,
   <<"U+1FCB", <<"U+1F75">>>>, <<"U+1FCC", <<"U+03B7", "U+03B9">>>>, <<"U+1FD2", <<"U+03B9", "U+0308", "U+0300">>>>,
   <<"U+1FD3", <<"U+03B9", "U+0308", "U+0301">>>>, <<"U+1FD6", <<"U+03B9", "U+0342">>>>, <<"U+1FD7", <<"U+03B9", "U+0308", "U+0342">>>>,
   <<"U+1FD8", <<"U+1FD0">>>>, <<"U+1FD9", <<"U+1FD1">>>>, <<"U+1FDA", <<"U+1F76">>>>,
   <<"U+1FDB", <<"U+1F77">>>>, <<"U+1FE2", <<"U+03C5", "U+0308", "U+0300">>>>, <<"U+1FE3", <<"U+03C5", "U+0308", "U+0301">>>>,
   <<"U+1FE4", <<"U+03C1", "U+0313">>>>, <<"U+1FE6", <<"U+03C5", "U+0342">>>>, <<"U+1FE7", <<"U+03C5", "U+0308", "U+0342">>>>,
   <<"U+1FE8", <<"U+1FE0">>>>, <<"U+1FE9", <<"U+1FE1">>>>, <<"U+1FEA", <<"U+1F7A">>>>,
   <<"U+1FEB", <<"U+1F7B">>>>, <<"U+1FEC", <<"U+1FE5">>>>, <<"U+1FF2", <<"U+1F7C", "U+03B9">>>>,
   <<"U+1FF3", <<"U+03C9", "U+03B9">>>>, <<"U+1FF4", <<"U+03CE", "U+03B9">>>>, <<"U+1FF6", <<"U+03C9", "U+0342">>>>,
   <<"U+1FF7", <<"U+03C9", "U+0342", "U+03B9">>>>, <<"U+1FF8", <<"U+1F78">>>>, <<"U+1FF9", <<"U+1F79">>>>,
   <<"U+1FFA", <<"U+1F7C">>>>, <<"U+1FFB", <<"U+1F7D">>>>, <<"U+1FFC", <<"U+03C9", "U+03B9">>>>,
   <<"U+2126", <<"U+03C9">>>>, <<"U+212A", <<"k">>>>, <<"U+212B", <<"U+00E5">>>>,
   <<"U+2132", <<"U+214E">>>>, <<"U+2160", <<"U+2170">>>>, <<"U+2161", <<"U+2171">>>>,
   <<"U+2162", <<"U+2172">>>>, <<"U+2163", <<"U+2173">>>>, <<"U+2164", <<"U+2174">>>>,
   <<"U+2165", <<"U+2175">>>>, <<"U+2166", <<"U+2176">>>>, <<"U+2167", <<"U+2177">>>>,
   <<"U+2168", <<"U+2178">>>>, <<"U+2169", <<"U+2179">>>>, <<"U+216A", <<"U+217A">>>>,
   <<"U+216B", <<"U+217B">>>>, <<"U+216C", <<"U+217C">>>>, <<"U+216D", <<"U+217D">>>>,
   <<"U+216E", <<"U+217E">>>>, <<"U+216F", <<"U+217F">>>>, <<"U+2183", <<"U+2184">>>>,
   <<"U+24B6", <<"U+24D0">>>>, <<"U+24B7", <<"U+24D1">>>>, <<"U+24B8", <<"U+24D2">>>>,
   <<"U+24B9", <<"U+24D3">>>>, <<"U+24BA", <<"U+24D4">>>>, <<"U+24BB", <<"U+24D5">>>>,
   <<"U+24BC", <<"U+24D6">>>>, <<"U+24BD", <<"U+24D7">>>>, <<"U+24BE", <<"U+24D8">>>>,
   <<"U+24BF", <<"U+24D9">>>>, <<"U+24C0", <<"U+24DA">>>>, <<"U+24C1", <<"U+24DB">>>>,
   <<"U+24C2", <<"U+24DC">>>>, <<"U+24C3", <<"U+24DD">>>>, <<"U+24C4", <<"U+24DE">>>>,
   <<"U+24C5", <<"U+24DF">>>>, <<"U+24C6", <<"U+24E0">>>>, <<"U+24C7", <<"U+24E1">>>>,
   <<"U+24C8", <<"U+24E2">>>>, <<"U+24C9", <<"U+24E3">>>>, <<"U+24CA", <<"U+24E4">>>>,
   <<"U+24CB", <<"U+24E5">>>>, <<"U+24CC", <<"U+24E6">>>>, <<"U+24CD", <<"U+24E7">>>>,
   <<"U+24CE", <<"U+24E8">>>>, <<"U+24CF", <<"U+24E9">>>>, <<"U+2C00", <<"U+2C30">>>>,
   <<"U+2C01", <<"U+2C31">>>>, <<"U+2C02", <<"U+2C32">>>>, <<"U+2C03", <<"U+2C33">>>>,
   <<"U+2C04", <<"U+2C34">>>>, <<"U+2C05", <<"U+2C35">>>>, <<"U+2C06", <<"U+2C36">>>>,
   <<"U+2C07", <<"U+2C37">>>>, <<"U+2C08", <<"U+2C38">>>>, <<"U+2C09", <<"U+2C39">>>>,
   <<"U+2C0A", <<"U+2C3A">>>>, <<"U+2C0B", <<"U+2C3B">>>>, <<"U+2C0C", <<"U+2C3C">>>>,
   <<"U+2C0D", <<"U+2C3D">>>>, <<"U+2C0E", <<"U+2C3E">>>>, <<"U+2C0F", <<"U+2C3F">>>>,
   <<"U+2C10", <<"U+2C40">>>>, <<"U+2C11", <<"U+2C41">>>>, <<"U+2C12", <<"U+2C42">>>>,
   <<"U+2C13", <<"U+2C43">>>>, <<"U+2C14", <<"U+2C44">>>>, <<"U+2C15", <<"U+2C45">>>>,
   <<"U+2C16", <<"U+2C46">>>>, <<"U+2C17", <<"U+2C47">>>>, <<"U+2C18", <<"U+2C48">>>>,
   <<"U+2C19", <<"U+2C49">>>>, <<"U+2C1A", <<"U+2C4A">>>>, <<"U+2C1B", <<"U+2C4B">>>>,
   <<"U+2C1C", <<"U+2C4C">>>>, <<"U+2C1D", <<"U+2C4D">>>>, <<"U+2C1E", <<"U+2C4E">>>>,
   <<"U+2C1F", <<"U+2C4F">>>>, <<"U+2C20", <<"U+2C50">>>>, <<"U+2C21", <<"U+2C51">>>>,
   <<"U+2C22", <<"U+2C52">>>>, <<"U+2C23", <<"U+2C53">>>>, <<"U+2C24", <<"U+2C54">>>>,
   <<"U+2C25", <<"U+2C55">>>>, <<"U+2C26", <<"U+2C56">>>>, <<"U+2C27", <<"U+2C57">>>>,
   <<"U+2C28", <<"U+2C58">>>>, <<"U+2C29", <<"U+2C59">>>>, <<"U+2C2A", <<"U+2C5A">>>>,
   <<"U+2C2B", <<"U+2C5B">>>>, <<"U+2C2C", <<"U+2C5C">>>>, <<"U+2C2D", <<"U+2C5D">>>>,
   <<"U+2C2E", <<"U+2C5E">>>>, <<"U+2C2F", <<"U+2C5F">>>>, <<"U+2C60", <<"U+2C61">>>>,
   <<"U+2C62", <<"U+026B">>>>, <<"U+2C63", <<"U+1D7D">>>>, <<"U+2C64", <<"U+027D">>>>,
   <<"U+2C67", <<"U+2C68">>>>, <<"U+2C69", <<"U+2C6A">>>>, <<"U+2C6B", <<"U+2C6C">>>>,
   <<"U+2C6D", <<"U+0251">>>>, <<"U+2C6E", <<"U+0271">>>>, <<"U+2C6F", <<"U+0250">>>>,
   <<"U+2C70", <<"U+0252">>>>, <<"U+2C72", <<"U+2C73">>>>, <<"U+2C75", <<"U+2C76">>>>,
   <<"U+2C7E", <<"U+023F">>>>, <<"U+2C7F", <<"U+0240">>>>, <<"U+2C80", <<"U+2C81">>>>,
   <<"U+2C82", <<"U+2C83">>>>, <<"U+2C84", <<"U+2C85">>>>, <<"U+2C86", <<"U+2C87">>>>,
   <<"U+2C88", <<"U+2C89">>>>, <<"U+2C8A", <<"U+2C8B">>>>, <<"U+2C8C", <<"U+2C8D">>>>,
   <<"U+2C8E", <<"U+2C8F">>>>, <<"U+2C90", <<"U+2C91">>>>, <<"U+2C92", <<"U+2C93">>>>,
   <<"U+2C94", <<"U+2C95">>>>, <<"U+2C96", <<"U+2C97">>>>, <<"U+2C98", <<"U+2C99">>>>,
   <<"U+2C9A", <<"U+2C9B">>>>, <<"U+2C9C", <<"U+2C9D">>>>, <<"U+2C9E", <<"U+2C9F">>>>,
   <<"U+2CA0", <<"U+2CA1">>>>, <<"U+2CA2", <<"U+2CA3">>>>, <<"U+2CA4", <<"U+2CA5">>>>,
   <<"U+2CA6", <<"U+2CA7">>>>, <<"U+2CA8", <<"U+2CA9">>>>, <<"U+2CAA", <<"U+2CAB">>>>,
   <<"U+2CAC", <<"U+2CAD">>>>, <<"U+2CAE", <<"U+2CAF">>>>, <<"U+2CB0", <<"U+2CB1">>>>,
   <<"U+2CB2", <<"U+2CB3">>>>, <<"U+2CB4", <<"U+2CB5">>>>, <<"U+2CB6", <<"U+2CB7">>>>,
   <<"U+2CB8", <<"U+2CB9">>>>, <<"U+2CBA", <<"U+2CBB">>>>, <<"U+2CBC", <<"U+2CBD">>>>,
   <<"U+2CBE", <<"U+2CBF">>>>, <<"U+2CC0", <<"U+2CC1">>>>, <<"U+2CC2", <<"U+2CC3">>>>,
   <<"U+2CC4", <<"U+2CC5">>>>, <<"U+2CC6", <<"U+2CC7">>>>, <<"U+2CC8", <<"U+2CC9">>>>,
   <<"U+2CCA", <<"U+2CCB">>>>, <<"U+2CCC", <<"U+2CCD">>>>, <<"U+2CCE", <<"U+2CCF">>>>,
   <<"U+2CD0", <<"U+2CD1">>>>, <<"U+2CD2", <<"U+2CD3">>>>, <<"U+2CD4", <<"U+2CD5">>>>,
   <<"U+2CD6", <<"U+2CD7">>>>, <<"U+2CD8", <<"U+2CD9">>>>, <<"U+2CDA", <<"U+2CDB">>>>,
   <<"U+2CDC", <<"U+2CDD">>>>, <<"U+2CDE", <<"U+2CDF">>>>, <<"U+2CE0", <<"U+2CE1">>>>,
   <<"U+2CE2", <<"U+2CE3">>>>, <<"U+2CEB", <<"U+2CEC">>>>, <<"U+2CED", <<"U+2CEE">>>>,
   <<"U+2CF2", <<"U+2CF3">>>>, <<"U+A640", <<"U+A641">>>>, <<"U+A642", <<"U+A643">>>>,
   <<"U+A644", <<"U+A645">>>>, <<"U+A646", <<"U+A647">>>>, <<"U+A648", <<"U+A649">>>>,
   <<"U+A64A", <<"U+A64B">>>>, <<"U+A64C", <<"U+A64D">>>>, <<"U+A64E", <<"U+A64F">>>>,
   <<"U+A650", <<"U+A651">>>>, <<"U+A652", <<"U+A653">>>>, <<"U+A654", <<"U+A655">>>>,
   <<"U+A656", <<"U+A657">>>>, <<"U+A658", <<"U+A659">>>>, <<"U+A65A", <<"U+A65B">>>>,
   <<"U+A65C", <<"U+A65D">>>>, <<"U+A65E", <<"U+A65F">>>>, <<"U+A660", <<"U+A661">>>>,
   <<"U+A662", <<"U+A663">>>>, <<"U+A664", <<"U+A665">>>>, <<"U+A666", <<"U+A667">>>>,
   <<"U+A668", <<"U+A669">>>>, <<"U+A66A", <<"U+A66B">>>>, <<"U+A66C", <<"U+A66D">>>>,
   <<"U+A680", <<"U+A681">>>>, <<"U+A682", <<"U+A683">>>>, <<"U+A684", <<"U+A685">>>>,
   <<"U+A686", <<"U+A687">>>>, <<"U+A688", <<"U+A689">>>>, <<"U+A68A", <<"U+A68B">>>>,
   <<"U+A68C", <<"U+A68D">>>>, <<"U+A68E", <<"U+A68F">>>>, <<"U+A690", <<"U+A691">>>>,
   <<"U+A692", <<"U+A693">>>>, <<"U+A694", <<"U+A695">>>>, <<"U+A696", <<"U+A697">>>>,
   <<"U+A698", <<"U+A699">>>>, <<"U+A69A", <<"U+A69B">>>>, <<"U+A722", <<"U+A723">>>>,
   <<"U+A724", <<"U+A725">>>>, <<"U+A726", <<"U+A727">>>>, <<"U+A728", <<"U+A729">>>>,
   <<"U+A72A", <<"U+A72B">>>>, <<"U+A72C", <<"U+A72D">>>>, <<"U+A72E", <<"U+A72F">>>>,
   <<"U+A732", <<"U+A733">>>>, <<"U+A734", <<"U+A735">>>>, <<"U+A736", <<"U+A737">>>>,
   <<"U+A738", <<"U+A739">>>>, <<"U+A73A", <<"U+A73B">>>>, <<"U+A73C", <<"U+A73D">>>>,
   <<"U+A73E", <<"U+A73F">>>>, <<"U+A740", <<"U+A741">>>>, <<"U+A742", <<"U+A743">>>>,
   <<"U+A744", <<"U+A745">>>>, <<"U+A746", <<"U+A747">>>>, <<"U+A748", <<"U+A749">>>>,
   <<"U+A74A", <<"U+A74B">>>>, <<"U+A74C", <<"U+A74D">>>>, <<"U+A74E", <<"U+A74F">>>>,
   <<"U+A750", <<"U+A751">>>>, <<"U+A752", <<"U+A753">>>>, <<"U+A754", <<"U+A755">>>>,
   <<"U+A756", <<"U+A757">>>>, <<"U+A758", <<"U+A759">>>>, <<"U+A75A", <<"U+A75B">>>>,
   <<"U+A75C", <<"U+A75D">>>>, <<"U+A75E", <<"U+A75F">>>>, <<"U+A760", <<"U+A761">>>>,
   <<"U+A762", <<"U+A763">>>>, <<"U+A764", <<"U+A765">>>>, <<"U+A766", <<"U+A767">>>>,
   <<"U+A768", <<"U+A769">>>>, <<"U+A76A", <<"U+A76B">>>>, <<"U+A76C", <<"U+A76D">>>>,
   <<"U+A76E", <<"U+A76F">>>>, <<"U+A779", <<"U+A77A">>>>, <<"U+A77B", <<"U+A77C">>>>,
   <<"U+A77D", <<"U+1D79">>>>, <<"U+A77E", <<"U+A77F">>>>, <<"U+A780", <<"U+A781">>>>,
   <<"U+A782", <<"U+A783">>>>, <<"U+A784", <<"U+A785">>>>, <<"U+A786", <<"U+A787">>>>,
   <<"U+A78B", <<"U+A78C">>>>, <<"U+A78D", <<"U+0265">>>>, <<"U+A790", <<"U+A791">>>>,
   <<"U+A792", <<"U+A793">>>>, <<"U+A796", <<"U+A797">>>>, <<"U+A798", <<"U+A799">>>>,
   <<"U+A79A", <<"U+A79B">>>>, <<"U+A79C", <<"U+A79D">>>>, <<"U+A79E", <<"U+A79F">>>>,
   <<"U+A7A0", <<"U+A7A1">>>>, <<"U+A7A2", <<"U+A7A3">>>>, <<"U+A7A4", <<"U+A7A5">>>>,
   <<"U+A7A6", <<"U+A7A7">>>>, <<"U+A7A8", <<"U+A7A9">>>>, <<"U+A7AA", <<"U+0266">>>>,
   <<"U+A7AB", <<"U+025C">>>>, <<"U+A7AC", <<"U+0261">>>>, <<"U+A7AD", <<"U+026C">>>>,
   <<"U+A7AE", <<"U+026A">>>>, <<"U+A7B0", <<"U+029E">>>>, <<"U+A7B1", <<"U+0287">>>>,
   <<"U+A7B2", <<"U+029D">>>>, <<"U+A7B3", <<"U+AB53">>>>, <<"U+A7B4", <<"U+A7B5">>>>,
   <<"U+A7B6", <<"U+A7B7">>>>, <<"U+A7B8", <<"U+A7B9">>>>, <<"U+A7BA", <<"U+A7BB">>>>,
   <<"U+A7BC", <<"U+A7BD">>>>, <<"U+A7BE", <<"U+A7BF">>>>, <<"U+A7C0", <<"U+A7C1">>>>,
   <<"U+A7C2", <<"U+A7C3">>>>, <<"U+A7C4", <<"U+A794">>>>, <<"U+A7C5", <<"U+0282">>>>,
   <<"U+A7C6", <<"U+1D8E">>>>, <<"U+A7C7", <<"U+A7C8">>>>, <<"U+A7C9", <<"U+A7CA">>>>,
   <<"U+A7D0", <<"U+A7D1">>>>, <<"U+A7D6", <<"U+A7D7">>>>, <<"U+A7D8", <<"U+A7D9">>>>,
   <<"U+A7F5", <<"U+A7F6">>>>, <<"U+AB70", <<"U+13A0">>>>, <<"U+AB71", <<"U+13A1">>>>,
   <<"U+AB72", <<"U+13A2">>>>, <<"U+AB73", <<"U+13A3">>>>, <<"U+AB74", <<"U+13A4">>>>,
   <<"U+AB75", <<"U+13A5">>>>, <<"U+AB76", <<"U+13A6">>>>, <<"U+AB77", <<"U+13A7">>>>,
   <<"U+AB78", <<"U+13A8">>>>, <<"U+AB79", <<"U+13A9">>>>, <<"U+AB7A", <<"U+13AA">>>>,
   <<"U+AB7B", <<"U+13AB">>>>, <<"U+AB7C", <<"U+13AC">>>>, <<"U+AB7D", <<"U+13AD">>>>,
   <<"U+AB7E", <<"U+13AE">>>>, <<"U+AB7F", <<"U+13AF">>>>, <<"U+AB80", <<"U+13B0">>>>,
   <<"U+AB81", <<"U+13B1">>>>, <<"U+AB82", <<"U+13B2">>>>, <<"U+AB83", <<"U+13B3">>>>,
   <<"U+AB84", <<"U+13B4">>>>, <<"U+AB85", <<"U+13B5">>>>, <<"U+AB86", <<"U+13B6">>>>,
   <<"U+AB87", <<"U+13B7">>>>, <<"U+AB88", <<"U+13B8">>>>, <<"U+AB89", <<"U+13B9">>>>,
   <<"U+AB8A", <<"U+13BA">>>>, <<"U+AB8B", <<"U+13BB">>>>, <<"U+AB8C", <<"U+13BC">>>>,
   <<"U+AB8D", <<"U+13BD">>>>, <<"U+AB8E", <<"U+13BE">>>>, <<"U+AB8F", <<"U+13BF">>>>,
   <<"U+AB90", <<"U+13C0">>>>, <<"U+AB91", <<"U+13C1">>>>, <<"U+AB92", <<"U+13C2">>>>,
   <<"U+AB93", <<"U+13C3">>>>, <<"U+AB94", <<"U+13C4">>>>, <<"U+AB95", <<"U+13C5">>>>,
   <<"U+AB96", <<"U+13C6">>>>, <<"U+AB97", <<"U+13C7">>>>, <<"U+AB98", <<"U+13C8">>>>,
   <<"U+AB99", <<"U+13C9">>>>, <<"U+AB9A", <<"U+13CA">>>>, <<"U+AB9B", <<"U+13CB">>>>,
   <<"U+AB9C", <<"U+13CC">>>>, <<"U+AB9D", <<"U+13CD">>>>, <<"U+AB9E", <<"U+13CE">>>>,
   <<"U+AB9F", <<"U+13CF">>>>, <<"U+ABA0", <<"U+13D0">>>>, <<"U+ABA1", <<"U+13D1">>>>,
   <<"U+ABA2", <<"U+13D2">>>>, <<"U+ABA3", <<"U+13D3">>>>, <<"U+ABA4", <<"U+13D4">>>>,
   <<"U+ABA5", <<"U+13D5">>>>, <<"U+ABA6", <<"U+13D6">>>>, <<"U+ABA7", <<"U+13D7">>>>,
   <<"U+ABA8", <<"U+13D8">>>>, <<"U+ABA9", <<"U+13D9">>>>, <<"U+ABAA", <<"U+13DA">>>>,
   <<"U+ABAB", <<"U+13DB">>>>, <<"U+ABAC", <<"U+13DC">>>>, <<"U+ABAD", <<"U+13DD">>>>,
   <<"U+ABAE", <<"U+13DE">>>>, <<"U+ABAF", <<"U+13DF">>>>, <<"U+ABB0", <<"U+13E0">>>>,
   <<"U+ABB1", <<"U+13E1">>>>, <<"U+ABB2", <<"U+13E2">>>>, <<"U+ABB3", <<"U+13E3">>>>,
   <<"U+ABB4", <<"U+13E4">>>>, <<"U+ABB5", <<"U+13E5">>>>, <<"U+ABB6", <<"U+13E6">>>>,
   <<"U+ABB7", <<"U+13E7">>>>, <<"U+ABB8", <<"U+13E8">>>>, <<"U+ABB9", <<"U+13E9">>>>,
   <<"U+ABBA", <<"U+13EA">>>>, <<"U+ABBB", <<"U+13EB">>>>, <<"U+ABBC", <<"U+13EC">>>>,
   <<"U+ABBD", <<"U+13ED">>>>, <<"U+ABBE", <<"U+13EE">>>>, <<"U+ABBF", <<"U+13EF">>>>,
   <<"U+FB00", <<"f", "f">>>>, <<"U+FB01", <<"f", "i">>>>, <<"U+FB02", <<"f", "l">>>>,
   <<"U+FB03", <<"f", "f", "i">>>>, <<"U+FB04", <<"f", "f", "l">>>>, <<"U+FB05", <<"s", "t">>>>,
   <<"U+FB06", <<"s", "t">>>>, <<"U+FB13", <<"U+0574", "U+0576">>>>, <<"U+FB14", <<"U+0574", "U+0565">>>>,
   <<"U+FB15", <<"U+0574", "U+056B">>>>, <<"U+FB16", <<"U+057E", "U+0576">>>>, <<"U+FB17", <<"U+0574", "U+056D">>>>,
   <<"U+FF21", <<"U+FF41">>>>, <<"U+FF22", <<"U+FF42">>>>, <<"U+FF23", <<"U+FF43">>>>,
   <<"U+FF24", <<"U+FF44">>>>, <<"U+FF25", <<"U+FF45">>>>, <<"U+FF26", <<"U+FF46">>>>,
   <<"U+FF27", <<"U+FF47">>>>, <<"U+FF28", <<"U+FF48">>>>, <<"U+FF29", <<"U+FF49">>>>,
   <<"U+FF2A", <<"U+FF4A">>>>, <<"U+FF2B", <<"U+FF4B">>>>, <<"U+FF2C", <<"U+FF4C">>>>,
   <<"U+FF2D", <<"U+FF4D">>>>, <<"U+FF2E", <<"U+FF4E">>>>, <<"U+FF2F", <<"U+FF4F">>>>,
   <<"U+FF30", <<"U+FF50">>>>, <<"U+FF31", <<"U+FF51">>>>, <<"U+FF32", <<"U+FF52">>>>,
   <<"U+FF33", <<"U+FF53">>>>, <<"U+FF34", <<"U+FF54">>>>, <<"U+FF35", <<"U+FF55">>>>,
   <<"U+FF36", <<"U+FF56">>>>, <<"U+FF37", <<"U+FF57">>>>, <<"U+FF38", <<"U+FF58">>>>,
   <<"U+FF39", <<"U+FF59">>>>, <<"U+FF3A", <<"U+FF5A">>>>, <<"U+10400", <<"U+10428">>>>,
   <<"U+10401", <<"U+10429">>>>, <<"U+10402", <<"U+1042A">>>>, <<"U+10403", <<"U+1042B">>>>,
   <<"U+10404", <<"U+1042C">>>>, <<"U+10405", <<"U+1042D">>>>, <<"U+10406", <<"U+1042E">>>>,
   <<"U+10407", <<"U+1042F">>>>, <<"U+10408", <<"U+10430">>>>, <<"U+10409", <<"U+10431">>>>,
   <<"U+1040A", <<"U+10432">>>>, <<"U+1040B", <<"U+10433">>>>, <<"U+1040C", <<"U+10434">>>>,
   <<"U+1040D", <<"U+10435">>>>, <<"U+1040E", <<"U+10436">>>>, <<"U+1040F", <<"U+10437">>>>,
   <<"U+10410", <<"U+10438">>>>, <<"U+10411", <<"U+10439">>>>, <<"U+10412", <<"U+1043A">>>>,
   <<"U+10413", <<"U+1043B">>>>, <<"U+10414", <<"U+1043C">>>>, <<"U+10415", <<"U+1043D">>>>,
   <<"U+10416", <<"U+1043E">>>>, <<"U+10417", <<"U+1043F">>>>, <<"U+10418", <<"U+10440">>>>,
   <<"U+10419", <<"U+10441">>>>, <<"U+1041A", <<"U+10442">>>>, <<"U+1041B", <<"U+10443">>>>,
   <<"U+1041C", <<"U+10444">>>>, <<"U+1041D", <<"U+10445">>>>, <<"U+1041E", <<"U+10446">>>>,
   <<"U+1041F", <<"U+10447">>>>, <<"U+10420", <<"U+10448">>>>, <<"U+10421", <<"U+10449">>>>,
   <<"U+10422", <<"U+1044A">>>>, <<"U+10423", <<"U+1044B">>>>, <<"U+10424", <<"U+1044C">>>>,
   <<"U+10425", <<"U+1044D">>>>, <<"U+10426", <<"U+1044E">>>>, <<"U+10427", <<"U+1044F">>>>,
   <<"U+104B0", <<"U+104D8">>>>, <<"U+104B1", <<"U+104D9">>>>, <<"U+104B2", <<"U+104DA">>>>,
   <<"U+104B3", <<"U+104DB">>>>, <<"U+104B4", <<"U+104DC">>>>, <<"U+104B5", <<"U+104DD">>>>,
   <<"U+104B6", <<"U+104DE">>>>, <<"U+104B7", <<"U+104DF">>>>, <<"U+104B8", <<"U+104E0">>>>,
   <<"U+104B9", <<"U+104E1">>>>, <<"U+104BA", <<"U+104E2">>>>, <<"U+104BB", <<"U+104E3">>>>,
   <<"U+104BC", <<"U+104E4">>>>, <<"U+104BD", <<"U+104E5">>>>, <<"U+104BE", <<"U+104E6">>>>,
   <<"U+104BF", <<"U+104E7">>>>, <<"U+104C0", <<"U+104E8">>>>, <<"U+104C1", <<"U+104E9">>>>,
   <<"U+104C2", <<"U+104EA">>>>, <<"U+104C3", <<"U+104EB">>>>, <<"U+104C4", <<"U+104EC">>>>,
   <<"U+104C5", <<"U+104ED">>>>, <<"U+104C6", <<"U+104EE">>>>, <<"U+104C7", <<"U+104EF">>>>,
   <<"U+104C8", <<"U+104F0">>>>, <<"U+104C9", <<"U+104F1">>>>, <<"U+104CA", <<"U+104F2">>>>,
   <<"U+104CB", <<"U+104F3">>>>, <<"U+104CC", <<"U+104F4">>>>, <<"U+104CD", <<"U+104F5">>>>,
   <<"U+104CE", <<"U+104F6">>>>, <<"U+104CF", <<"U+104F7">>>>, <<"U+104D0", <<"U+104F8">>>>,
   <<"U+104D1", <<"U+104F9">>>>, <<"U+104D2", <<"U+104FA">>>>, <<"U+104D3", <<"U+104FB">>>>,
   <<"U+10570", <<"U+10597">>>>, <<"U+10571", <<"U+10598">>>>, <<"U+10572", <<"U+10599">>>>,
   <<"U+10573", <<"U+1059A">>>>, <<"U+10574", <<"U+1059B">>>>, <<"U+10575", <<"U+1059C">>>>,
   <<"U+10576", <<"U+1059D">>>>, <<"U+10577", <<"U+1059E">>>>, <<"U+10578", <<"U+1059F">>>>,
   <<"U+10579", <<"U+105A0">>>>, <<"U+1057A", <<"U+105A1">>>>, <<"U+1057C", <<"U+105A3">>>>,
   <<"U+1057D", <<"U+105A4">>>>, <<"U+1057E", <<"U+105A5">>>>, <<"U+1057F", <<"U+105A6">>>>,
   <<"U+10580", <<"U+105A7">>>>, <<"U+10581", <<"U+105A8">>>>, <<"U+10582", <<"U+105A9">>>>,
   <<"U+10583", <<"U+105AA">>>>, <<"U+10584", <<"U+105AB">>>>, <<"U+10585", <<"U+105AC">>>>,
   <<"U+10586", <<"U+105AD">>>>, <<"U+10587", <<"U+105AE">>>>, <<"U+10588", <<"U+105AF">>>>,
   <<"U+10589", <<"U+105B0">>>>, <<"U+1058A", <<"U+105B1">>>>, <<"U+1058C", <<"U+105B3">>>>,
   <<"U+1058D", <<"U+105B4">>>>, <<"U+1058E", <<"U+105B5">>>>, <<"U+1058F", <<"U+105B6">>>>,
   <<"U+10590", <<"U+105B7">>>>, <<"U+10591", <<"U+105B8">>>>, <<"U+10592", <<"U+105B9">>>>,
   <<"U+10594", <<"U+105BB">>>>, <<"U+10595", <<"U+105BC">>>>, <<"U+10C80", <<"U+10CC0">>>>,
   <<"U+10C81", <<"U+10CC1">>>>, <<"U+10C82", <<"U+10CC2">>>>, <<"U+10C83", <<"U+10CC3">>>>,
   <<"U+10C84", <<"U+10CC4">>>>, <<"U+10C85", <<"U+10CC5">>>>, <<"U+10C86", <<"U+10CC6">>>>,
   <<"U+10C87", <<"U+10CC7">>>>, <<"U+10C88", <<"U+10CC8">>>>, <<"U+10C89", <<"U+10CC9">>>>,
   <<"U+10C8A", <<"U+10CCA">>>>, <<"U+10C8B", <<"U+10CCB">>>>, <<"U+10C8C", <<"U+10CCC">>>>,
   <<"U+10C8D", <<"U+10CCD">>>>, <<"U+10C8E", <<"U+10CCE">>>>, <<"U+10C8F", <<"U+10CCF">>>>,
   <<"U+10C90", <<"U+10CD0">>>>, <<"U+10C91", <<"U+10CD1">>>>, <<"U+10C92", <<"U+10CD2">>>>,
   <<"U+10C93", <<"U+10CD3">>>>, <<"U+10C94", <<"U+10CD4">>>>, <<"U+10C95", <<"U+10CD5">>>>,
   <<"U+10C96", <<"U+10CD6">>>>, <<"U+10C97", <<"U+10CD7">>>>, <<"U+10C98", <<"U+10CD8">>>>,
   <<"U+10C99", <<"U+10CD9">>>>, <<"U+10C9A", <<"U+10CDA">>>>, <<"U+10C9B", <<"U+10CDB">>>>,
   <<"U+10C9C", <<"U+10CDC">>>>, <<"U+10C9D", <<"U+10CDD">>>>, <<"U+10C9E", <<"U+10CDE">>>>,
   <<"U+10C9F", <<"U+10CDF">>>>, <<"U+10CA0", <<"U+10CE0">>>>, <<"U+10CA1", <<"U+10CE1">>>>,
   <<"U+10CA2", <<"U+10CE2">>>>, <<"U+10CA3", <<"U+10CE3">>>>, <<"U+10CA4", <<"U+10CE4">>>>,
   <<"U+10CA5", <<"U+10CE5">>>>, <<"U+10CA6", <<"U+10CE6">>>>, <<"U+10CA7", <<"U+10CE7">>>>,
   <<"U+10CA8", <<"U+10CE8">>>>, <<"U+10CA9", <<"U+10CE9">>>>, <<"U+10CAA", <<"U+10CEA">>>>,
   <<"U+10CAB", <<"U+10CEB">>>>, <<"U+10CAC", <<"U+10CEC">>>>, <<"U+10CAD", <<"U+10CED">>>>,
   <<"U+10CAE", <<"U+10CEE">>>>, <<"U+10CAF", <<"U+10CEF">>>>, <<"U+10CB0", <<"U+10CF0">>>>,
   <<"U+10CB1", <<"U+10CF1">>>>, <<"U+10CB2", <<"U+10CF2">>>>, <<"U+118A0", <<"U+118C0">>>>,
   <<"U+118A1", <<"U+118C1">>>>, <<"U+118A2", <<"U+118C2">>>>, <<"U+118A3", <<"U+118C3">>>>,
   <<"U+118A4", <<"U+118C4">>>>, <<"U+118A5", <<"U+118C5">>>>, <<"U+118A6", <<"U+118C6">>>>,
   <<"U+118A7", <<"U+118C7">>>>, <<"U+118A8", <<"U+118C8">>>>, <<"U+118A9", <<"U+118C9">>>>,
   <<"U+118AA", <<"U+118CA">>>>, <<"U+118AB", <<"U+118CB">>>>, <<"U+118AC", <<"U+118CC">>>>,
   <<"U+118AD", <<"U+118CD">>>>, <<"U+118AE", <<"U+118CE">>>>, <<"U+118AF", <<"U+118CF">>>>,
   <<"U+118B0", <<"U+118D0">>>>, <<"U+118B1", <<"U+118D1">>>>, <<"U+118B2", <<"U+118D2">>>>,
   <<"U+118B3", <<"U+118D3">>>>, <<"U+118B4", <<"U+118D4">>>>, <<"U+118B5", <<"U+118D5">>>>,
   <<"U+118B6", <<"U+118D6">>>>, <<"U+118B7", <<"U+118D7">>>>, <<"U+118B8", <<"U+118D8">>>>,
   <<"U+118B9", <<"U+118D9">>>>, <<"U+118BA", <<"U+118DA">>>>, <<"U+118BB", <<"U+118DB">>>>,
   <<"U+118BC", <<"U+118DC">>>>, <<"U+118BD", <<"U+118DD">>>>, <<"U+118BE", <<"U+118DE">>>>,
   <<"U+118BF", <<"U+118DF">>>>, <<"U+16E40", <<"U+16E60">>>>, <<"U+16E41", <<"U+16E61">>>>,
   <<"U+16E42", <<"U+16E62">>>>, <<"U+16E43", <<"U+16E63">>>>, <<"U+16E44", <<"U+16E64">>>>,
   <<"U+16E45", <<"U+16E65">>>>, <<"U+16E46", <<"U+16E66">>>>, <<"U+16E47", <<"U+16E67">>>>,
   <<"U+16E48", <<"U+16E68">>>>, <<"U+16E49", <<"U+16E69">>>>, <<"U+16E4A", <<"U+16E6A">>>>,
   <<"U+16E4B", <<"U+16E6B">>>>, <<"U+16E4C", <<"U+16E6C">>>>, <<"U+16E4D", <<"U+16E6D">>>>,
   <<"U+16E4E", <<"U+16E6E">>>>, <<"U+16E4F", <<"U+16E6F">>>>, <<"U+16E50", <<"U+16E70">>>>,
   <<"U+16E51", <<"U+16E71">>>>, <<"U+16E52", <<"U+16E72">>>>, <<"U+16E53", <<"U+16E73">>>>,
   <<"U+16E54", <<"U+16E74">>>>, <<"U+16E55", <<"U+16E75">>>>, <<"U+16E56", <<"U+16E76">>>>,
   <<"U+16E57", <<"U+16E77">>>>, <<"U+16E58", <<"U+16E78">>>>, <<"U+16E59", <<"U+16E79">>>>,
   <<"U+16E5A", <<"U+16E7A">>>>, <<"U+16E5B", <<"U+16E7B">>>>, <<"U+16E5C", <<"U+16E7C">>>>,
   <<"U+16E5D", <<"U+16E7D">>>>, <<"U+16E5E", <<"U+16E7E">>>>, <<"U+16E5F", <<"U+16E7F">>>>,
   <<"U+1E900", <<"U+1E922">>>>, <<"U+1E901", <<"U+1E923">>>>, <<"U+1E902", <<"U+1E924">>>>,
   <<"U+1E903", <<"U+1E925">>>>, <<"U+1E904", <<"U+1E926">>>>, <<"U+1E905", <<"U+1E927">>>>,
   <<"U+1E906", <<"U+1E928">>>>, <<"U+1E907", <<"U+1E929">>>>, <<"U+1E908", <<"U+1E92A">>>>,
   <<"U+1E909", <<"U+1E92B">>>>, <<"U+1E90A", <<"U+1E92C">>>>, <<"U+1E90B", <<"U+1E92D">>>>,
   <<"U+1E90C", <<"U+1E92E">>>>, <<"U+1E90D", <<"U+1E92F">>>>, <<"U+1E90E", <<"U+1E930">>>>,
   <<"U+1E90F", <<"U+1E931">>>>, <<"U+1E910", <<"U+1E932">>>>, <<"U+1E911", <<"U+1E933">>>>,
   <<"U+1E912", <<"U+1E934">>>>, <<"U+1E913", <<"U+1E935">>>>, <<"U+1E914", <<"U+1E936">>>>,
   <<"U+1E915", <<"U+1E937">>>>, <<"U+1E916", <<"U+1E938">>>>, <<"U+1E917", <<"U+1E939">>>>,
   <<"U+1E918", <<"U+1E93A">>>>, <<"U+1E919", <<"U+1E93B">>>>, <<"U+1E91A", <<"U+1E93C">>>>,
   <<"U+1E91B", <<"U+1E93D">>>>, <<"U+1E91C", <<"U+1E93E">>>>, <<"U+1E91D", <<"U+1E93F">>>>,
   <<"U+1E91E", <<"U+1E940">>>>, <<"U+1E91F", <<"U+1E941">>>>, <<"U+1E920", <<"U+1E942">>>>,
   <<"U+1E921", <<"U+1E943">>>>}

CasefoldMap ==
  [c \in {p[1] : p \in CasefoldPairs} |-> (CHOOSE p \in CasefoldPairs : p[1] = c)[2]]

\* c.casefold() for one character, the fold that caseless matching of
\* Unicode strings compares.
CasefoldChar(c) ==
  IF \E k \in 1..26 : UpperLetters[k] = c
    THEN <<LowerLetters[CHOOSE k \in 1..26 : UpperLetters[k] = c]>>
  ELSE IF c \in DOMAIN CasefoldMap THEN CasefoldMap[c]
  ELSE <<c>>

Casefold(str) == JoinBits([i \in 1..Len(str) |-> CasefoldChar(str[i])])

\* The request names the method POST, in any case.
IsPost(environ) ==
  /\ environ.REQUEST_METHOD.present
  /\ Casefold(environ.REQUEST_METHOD.val) = <<"p", "o", "s", "t">>

\* The request is for the path /api/analyze.
IsAnalyzePath(environ) ==
  environ.PATH_INFO.present /\ environ.PATH_INFO.val = "/api/analyze"

\* C10: every request to /api/analyze whose method is not POST, compared
\* without regard to case, is answered 405 Method Not Allowed with the header
\* Allow: POST and the body "Method Not Allowed"; the request body is not
\* read and analyze_contract is not called.
C10_MethodNotAllowed ==
  (AppDone /\ IsAnalyzePath(aenv) /\ ~IsPost(aenv)) =>
    /\ aresp.kind = "response"
    /\ aresp.status = "405 Method Not Allowed"
    /\ aresp.body = "Method Not Allowed"
    /\ \E i \in 1..Len(aresp.headers) : aresp.headers[i] = <<"Allow", "POST">>
    /\ alog = <<>>

\* C10 witness: a PUT with a complete JSON body was answered 405.
C10_Witness ==
  /\ AppDone /\ IsAnalyzePath(aenv)
  /\ aenv.REQUEST_METHOD = Present(<<"P", "U", "T">>)
  /\ aenv.body = SampleObject /\ aenv.CONTENT_LENGTH = Present("exact")
  /\ aresp.status = "405 Method Not Allowed"

\* The bytes read from the request are a JSON object whose address and source
\* are non-empty strings and whose metadata is missing, null or an object.
BodyValid(environ) ==
  /\ environ.CONTENT_LENGTH.present
  /\ environ.CONTENT_LENGTH.val \in {"exact", "long"}
  /\ environ.body.form \in {"json", "big_int"} /\ environ.body.top = "object"
  /\ LET m == environ.body.members
     IN /\ "address" \in DOMAIN m /\ m["address"].type = "string" /\ ~m["address"].falsy
        /\ "source" \in DOMAIN m /\ m["source"].type = "string" /\ ~m["source"].falsy
        /\ "metadata" \in DOMAIN m => m["metadata"].type \in {"null", "object"}

\* The member is a non-empty string of the JSON object read.
GoodString(environ, key) ==
  /\ BodyValid([environ EXCEPT !.body.members =
                  [k \in {"address", "source"} |-> JsonString(OneLine("0xabc123"))]])
  /\ key \in DOMAIN environ.body.members
  /\ environ.body.members[key].type = "string"
  /\ ~environ.body.members[key].falsy

\* C11 as stated: a POST to /api/analyze is answered 200 only if the body is
\* a JSON object with a non-empty string address, a non-empty string source
\* and a metadata that is missing, null or an object; in every other case the
\* answer is 400 Bad Request and analyze_contract is not called; a 400 for a
\* member names the first one that fails, in the order address, source,
\* metadata.
C11_PostValidation ==
  (AppDone /\ IsAnalyzePath(aenv) /\ IsPost(aenv)) =>
    /\ (aresp.kind = "response" /\ aresp.status = "200 OK") => BodyValid(aenv)
    /\ ~BodyValid(aenv) =>
         /\ aresp.kind = "response"
         /\ aresp.status = "400 Bad Request"
         /\ alog = <<"read_json_body">>
         /\ aresp.body = "'address' must be a non-empty string"
              => ~GoodString(aenv, "address")
         /\ aresp.body = "'source' must be provided as Solidity text"
              => (GoodString(aenv, "address") /\ ~GoodString(aenv, "source"))
         /\ aresp.body = "'metadata' must be an object when provided"
              => (GoodString(aenv, "address") /\ GoodString(aenv, "source"))

(***************************************************************************)
(* Properties of the contract analysis (SpecAnalysis).                     *)
(***************************************************************************)
\* The hits each kind of line brings, told from the lines themselves.
DelegatecallHits(source) ==
  source["target.delegatecall(data);"]
  + 2 * source["a.delegatecall (x); b.DelegateCall(y);"]
  + source["pragma solidity ^0.8.0;contract Test {  function boom(address target) external {    target.delegatecall(\"\");  }}"]
  + source["            target.delegatecall(\"\");"]

ValueCallHits(source) ==
  source["to.call(abi.encode(value));"]
  + source["x.call(value); y.call(value);"]
  + source["to.call{value: amount}(data);"]
  + source["            victim.call{value: address(this).balance}(\"\");"]

SelfdestructHits(source) ==
  source["selfdestruct(payable(owner));"]
  + source["SUICIDE(owner);"]
  + source["            selfdestruct(receiver);"]

TimestampHits(source) ==
  source["require(block.timestamp > deadline);"]
  + source["uint height = block.number;"]
  + source["// unknown caller"]
  + source["            return block.timestamp;"]

FindingIds(report) == {report.findings[i].id : i \in DOMAIN report.findings}

\* C12: a source with at least one delegatecall hit gets the finding
\* "delegatecall", metrics.delegatecall_count equal to the number of hits and
\* the label "medium" or "high"; with low-level value calls, selfdestruct and
\* timestamp hits as well the label is "high"; a source with more hits never
\* has a lower risk score.
C12_DelegatecallRisk ==
  /\ [](DelegatecallHits(nsource) > 0 =>
          /\ "delegatecall" \in FindingIds(nreport)
          /\ nreport.metrics.delegatecall_count = DelegatecallHits(nsource)
          /\ nreport.risk_rating.label \in {"medium", "high"}
          /\ (ValueCallHits(nsource) > 0 /\ SelfdestructHits(nsource) > 0
              /\ TimestampHits(nsource) > 0)
               => nreport.risk_rating.label = "high")
  /\ [][nreport'.risk_rating.score >= nreport.risk_rating.score]_vars

C12_Witness ==
  /\ DelegatecallHits(nsource) = 2
  /\ ValueCallHits(nsource) = 1 /\ SelfdestructHits(nsource) = 1
  /\ TimestampHits(nsource) = 1
  /\ nreport.metrics.delegatecall_count = 2
  /\ nreport.risk_rating = [label |-> "high", score |-> 100]

\* What a detector adds for 1, 2 and 3 or more hits, as a table.
Ladder(table, hits) == IF hits = 0 THEN 0 ELSE table[Min(hits, Len(table))]

\* 5 plus the contributions of the seven detectors, from the hit counts of
\* the report.
UncappedScore(report) ==
  LET m == report.metrics
  IN 5 + Ladder(<<45, 55, 65>>, m.delegatecall_count)
       + Ladder(<<18, 24, 30>>, m.low_level_call_with_value)
       + Ladder(<<8, 12, 16>>, m.timestamp_dependency)
       + Ladder(<<35, 45, 55>>, m.selfdestruct_count)
       + Ladder(<<12, 16, 20>>, m.assembly_blocks)
       + Ladder(<<30, 40, 50>>, m.tx_origin_references)
       + Ladder(<<6, 9, 12>>, m.unchecked_blocks)

\* C15: the risk score is min(100, 5 + the detectors' contributions) and lies
\* in 5..100; the label is "low" for 5..39, "medium" for 40..69 and "high"
\* for 70..100; the ranges leave no gap, so the "critical" fallback of
\* _classify_risk is never taken.
C15_ScoreAndLabel ==
  LET score == nreport.risk_rating.score
      label == nreport.risk_rating.label
  IN /\ score = Min(100, UncappedScore(nreport))
     /\ score \in 5..100
     /\ label = "low" <=> score \in 5..39
     /\ label = "medium" <=> score \in 40..69
     /\ label = "high" <=> score \in 70..100
     /\ label # "critical"
     /\ \A x \in 5..100 : classify_risk(x).label \in {"low", "medium", "high"}

C15_Witness ==
  /\ UncappedScore(nreport) = 127
  /\ nreport.risk_rating = [label |-> "high", score |-> 100]
  /\ nreport.metrics.tx_origin_references = 1

====
